---- MODULE Spec2Model ----
(***************************************************************************)
(* Portfolio rebalancing scripts for Google Sheets (three revisions):      *)
(*   "v1"  src/unnamed/part_000        indicators read from the sheet      *)
(*   "v2"  src/googleSheetsHelper.v2.js  fetchers behind withCache         *)
(*   "v3"  src/unnamed/part_001        v2 with versioned cache keys        *)
(* JavaScript numbers are modelled as exact rationals together with NaN    *)
(* and the two infinities; null, undefined and strings are values of the   *)
(* same record shape, so that the code's coercions can be followed.        *)
(***************************************************************************)
EXTENDS Integers, Sequences, FiniteSets, TLC

VARIABLES rev,      \* which revision of the script is installed
          curr,     \* scorer harness: the current value handed to a scorer
          hist,     \* scorer harness: the historical series handed to it
          op,       \* the function applied last ("idle" before any)
          out,      \* what it returned or threw
          book,     \* the spreadsheet: 'Asset Allocations' and 'Asset Metadata'
          world,    \* what the Indicators sheet and the data feeds hold
          cache,    \* the script cache: key -> [val, exp]
          clock     \* seconds since the start

Revisions == {"v1", "v2", "v3"}

-----------------------------------------------------------------------------
(* JavaScript values *)

RECURSIVE Gcd(_, _)
Gcd(a, b) == IF b = 0 THEN a ELSE Gcd(b, a % b)

AbsInt(i) == IF i < 0 THEN -i ELSE i

\* the rational n/d (d # 0) in lowest terms, as a JS number
R(n, d) ==
  LET g == Gcd(AbsInt(n), AbsInt(d))
      s == IF d < 0 THEN -1 ELSE 1
  IN  [k |-> "num", n |-> (s * n) \div g, d |-> (s * d) \div g, s |-> <<>>]

NaN       == [k |-> "NaN", n |-> 0, d |-> 1, s |-> <<>>]
PInf      == [k |-> "Inf", n |-> 1, d |-> 1, s |-> <<>>]
NInf      == [k |-> "Inf", n |-> -1, d |-> 1, s |-> <<>>]
Null      == [k |-> "null", n |-> 0, d |-> 1, s |-> <<>>]
Undefined == [k |-> "undefined", n |-> 0, d |-> 1, s |-> <<>>]
Str(chars) == [k |-> "str", n |-> 0, d |-> 1, s |-> chars]
Zero      == R(0, 1)
One       == R(1, 1)

IsNum(v)    == v.k = "num"
IsNaN(v)    == v.k = "NaN"
IsInf(v)    == v.k = "Inf"
IsNullish(v) == v.k \in {"null", "undefined"}     \* v == null

\* ToNumber on the values arithmetic meets here: null is 0, undefined is NaN
ToNumber(v) ==
  CASE v.k \in {"num", "NaN", "Inf"} -> v
    [] v.k = "null" -> Zero
    [] OTHER -> NaN

SignOf(v) == IF v.n > 0 THEN 1 ELSE IF v.n < 0 THEN -1 ELSE 0

Neg(v0) ==
  LET v == ToNumber(v0)
  IN  IF IsNaN(v) THEN NaN ELSE [v EXCEPT !.n = -v.n]

Add(a0, b0) ==
  LET a == ToNumber(a0)
      b == ToNumber(b0)
  IN  CASE IsNaN(a) \/ IsNaN(b) -> NaN
        [] IsInf(a) /\ IsInf(b) -> IF a.n = b.n THEN a ELSE NaN
        [] IsInf(a) -> a
        [] IsInf(b) -> b
        [] OTHER -> R(a.n * (b.d \div Gcd(a.d, b.d)) + b.n * (a.d \div Gcd(a.d, b.d)),
                      (a.d \div Gcd(a.d, b.d)) * b.d)

Sub(a, b) == Add(a, Neg(b))

Mul(a0, b0) ==
  LET a == ToNumber(a0)
      b == ToNumber(b0)
  IN  CASE IsNaN(a) \/ IsNaN(b) -> NaN
        [] IsInf(a) \/ IsInf(b) ->
             IF SignOf(a) * SignOf(b) = 0 THEN NaN
             ELSE IF SignOf(a) * SignOf(b) > 0 THEN PInf ELSE NInf
        [] OTHER -> R(a.n * b.n, a.d * b.d)

\* IEEE division; a zero divisor is +0 (no sum or maximum here yields -0)
Div(a0, b0) ==
  LET a == ToNumber(a0)
      b == ToNumber(b0)
  IN  CASE IsNaN(a) \/ IsNaN(b) -> NaN
        [] IsInf(a) /\ IsInf(b) -> NaN
        [] IsInf(a) -> IF SignOf(b) < 0 THEN Neg(a) ELSE a
        [] IsInf(b) -> Zero
        [] b.n = 0 -> IF a.n = 0 THEN NaN ELSE IF a.n > 0 THEN PInf ELSE NInf
        [] OTHER -> R(a.n * b.d, a.d * b.n)

\* a < b as JavaScript evaluates it: false as soon as one side is NaN
Lt(a0, b0) ==
  LET a == ToNumber(a0)
      b == ToNumber(b0)
  IN  CASE IsNaN(a) \/ IsNaN(b) -> FALSE
        [] IsInf(a) /\ IsInf(b) -> a.n < b.n
        [] IsInf(a) -> a.n < 0
        [] IsInf(b) -> b.n > 0
        [] OTHER -> a.n * (b.d \div Gcd(a.d, b.d)) < b.n * (a.d \div Gcd(a.d, b.d))

Gt(a, b) == Lt(b, a)

NumEq(a0, b0) ==
  LET a == ToNumber(a0)
      b == ToNumber(b0)
  IN  ~IsNaN(a) /\ ~IsNaN(b) /\ a = b

Le(a, b) == Lt(a, b) \/ NumEq(a, b)
Ge(a, b) == Le(b, a)

MathMax(a0, b0) ==
  LET a == ToNumber(a0)
      b == ToNumber(b0)
  IN  IF IsNaN(a) \/ IsNaN(b) THEN NaN ELSE IF Lt(a, b) THEN b ELSE a

MathMin(a0, b0) ==
  LET a == ToNumber(a0)
      b == ToNumber(b0)
  IN  IF IsNaN(a) \/ IsNaN(b) THEN NaN ELSE IF Lt(b, a) THEN b ELSE a

MathAbs(v0) ==
  LET v == ToNumber(v0)
  IN  IF IsNaN(v) THEN NaN ELSE [v EXCEPT !.n = AbsInt(v.n)]

MathSign(v0) ==
  LET v == ToNumber(v0)
  IN  IF IsNaN(v) THEN NaN ELSE R(SignOf(v), 1)

\* ToBoolean: what `if (x)`, `!x` and `x || y` test
Truthy(v) ==
  CASE v.k = "num" -> v.n # 0
    [] v.k = "Inf" -> TRUE
    [] v.k = "str" -> Len(v.s) > 0
    [] OTHER -> FALSE

\* a finite number within [lo, hi]
InRange(v, lo, hi) == IsNum(v) /\ Le(lo, v) /\ Le(v, hi)

\* the property `name` of an object, undefined when the object has none
Prop(obj, name) == IF name \in DOMAIN obj THEN obj[name] ELSE "undefined"

-----------------------------------------------------------------------------
(* Configuration *)

TREND_PERIODS == 3

THRESHOLDS ==
  [unemployment |-> [veryLow |-> R(7, 2), low |-> R(9, 2),
                     high |-> R(11, 2), veryHigh |-> R(13, 2)],
   cpi          |-> [veryLow |-> R(1, 1), target |-> R(2, 1),
                     tolerance |-> R(1, 2), high |-> R(4, 1)],
   vix          |-> [low |-> R(15, 1), normal |-> R(20, 1),
                     elevated |-> R(25, 1), high |-> R(30, 1)]]

-----------------------------------------------------------------------------
(* Historical series: an array of numbers, or null / undefined *)

Arr(seq)  == [k |-> "arr", a |-> seq]
NoArr     == [k |-> "null", a |-> <<>>]

RECURSIVE SumSeq(_)
SumSeq(s) == IF s = <<>> THEN Zero ELSE Add(s[1], SumSeq(Tail(s)))

\* arr.reduce((a,b) => a+b, 0) / arr.length
Avg(s) == Div(SumSeq(s), R(Len(s), 1))

MinInt(a, b) == IF a < b THEN a ELSE b

\* Math.max(-1, Math.min(1, change * 10))
\* (recentAvg - olderAvg) / olderAvg, scaled by 10 and held to [-1, 1]
TrendFrom(recentAvg, olderAvg) ==
  MathMax(R(-1, 1), MathMin(One, Mul(Div(Sub(recentAvg, olderAvg), olderAvg), R(10, 1))))

TrendOf(older, recent) ==
  IF older = <<>> THEN Zero ELSE TrendFrom(Avg(recent), Avg(older))

\* v1: recentPeriods = min(periods, length); the rest is `older`
\* a variant that keeps one point for the older window whatever `periods` is
calculateTrend_v1_clipped(historical, periods) ==
  IF historical.k # "arr" \/ Len(historical.a) < 2 THEN Zero
  ELSE TrendOf(SubSeq(historical.a, 1,
                      Len(historical.a) - MinInt(periods, Len(historical.a) - 1)),
               SubSeq(historical.a,
                      Len(historical.a) - MinInt(periods, Len(historical.a) - 1) + 1,
                      Len(historical.a)))

calculateTrend_v1(historical, periods) ==
  IF historical.k # "arr" \/ Len(historical.a) < 2 THEN Zero
  ELSE TrendOf(SubSeq(historical.a, 1,
                      Len(historical.a) - MinInt(periods, Len(historical.a))),
               SubSeq(historical.a,
                      Len(historical.a) - MinInt(periods, Len(historical.a)) + 1,
                      Len(historical.a)))

\* v2, v3: slice(-periods) against slice(0, -periods)
calculateTrend_v2(historical, periods) ==
  IF historical.k # "arr" \/ Len(historical.a) < periods + 1 THEN Zero
  ELSE TrendOf(SubSeq(historical.a, 1, Len(historical.a) - periods),
               SubSeq(historical.a, Len(historical.a) - periods + 1,
                      Len(historical.a)))

calculateTrend(r, historical, periods) ==
  IF r = "v1" THEN calculateTrend_v1(historical, periods)
  ELSE calculateTrend_v2(historical, periods)

-----------------------------------------------------------------------------
(* Text: strings the code searches are sequences of one-character strings *)

Uppers == <<"A","B","C","D","E","F","G","H","I","J","K","L","M",
            "N","O","P","Q","R","S","T","U","V","W","X","Y","Z">>
Lowers == <<"a","b","c","d","e","f","g","h","i","j","k","l","m",
            "n","o","p","q","r","s","t","u","v","w","x","y","z">>

LowerChar(c) ==
  IF \E i \in 1..26 : Uppers[i] = c
  THEN Lowers[CHOOSE i \in 1..26 : Uppers[i] = c]
  ELSE c

\* String.prototype.toLowerCase
toLowerCase(chars) == [i \in 1..Len(chars) |-> LowerChar(chars[i])]

\* String.prototype.includes
includes(hay, needle) ==
  \E i \in 1..(Len(hay) - Len(needle) + 1) :
     SubSeq(hay, i, i + Len(needle) - 1) = needle

RECURSIVE Join(_)
Join(chars) == IF chars = <<>> THEN "" ELSE Head(chars) \o Join(Tail(chars))

Digits == <<"0","1","2","3","4","5","6","7","8","9">>

RECURSIVE NatChars(_)
NatChars(i) ==
  IF i < 10 THEN <<Digits[i + 1]>>
  ELSE NatChars(i \div 10) \o <<Digits[(i % 10) + 1]>>

RECURSIVE Pow10(_)
Pow10(f) == IF f = 0 THEN 1 ELSE 10 * Pow10(f - 1)

RECURSIVE PadChars(_, _)
PadChars(chars, width) ==
  IF Len(chars) >= width THEN chars ELSE PadChars(<<"0">> \o chars, width)

RECURSIVE StripZeros(_)
StripZeros(chars) ==
  IF chars # <<>> /\ chars[Len(chars)] = "0"
  THEN StripZeros(SubSeq(chars, 1, Len(chars) - 1))
  ELSE chars

\* Number.prototype.toFixed(f): the nearest multiple of 10^-f, the larger of
\* two equally near ones, always with f decimals
toFixed(v, f) ==
  CASE IsNaN(v) -> <<"N","a","N">>
    [] IsInf(v) -> IF v.n < 0 THEN <<"-","I","n","f","i","n","i","t","y">>
                   ELSE <<"I","n","f","i","n","i","t","y">>
    [] OTHER ->
         LET q     == (2 * AbsInt(v.n) * Pow10(f) + v.d) \div (2 * v.d)
             whole == NatChars(q \div Pow10(f))
             frac  == PadChars(NatChars(q % Pow10(f)), f)
             sign  == IF v.n < 0 THEN <<"-">> ELSE <<>>
         IN  sign \o whole \o (IF f = 0 THEN <<>> ELSE <<".">> \o frac)

\* Number-to-string of template literals and toString(): the decimal
\* expansion, cut after six decimals, trailing zeros dropped
NumChars(v) ==
  CASE IsNaN(v) -> <<"N","a","N">>
    [] IsInf(v) -> IF v.n < 0 THEN <<"-","I","n","f","i","n","i","t","y">>
                   ELSE <<"I","n","f","i","n","i","t","y">>
    [] OTHER ->
         LET a     == AbsInt(v.n)
             whole == NatChars(a \div v.d)
             frac  == StripZeros(PadChars(NatChars(((a % v.d) * 1000000) \div v.d), 6))
             sign  == IF v.n < 0 THEN <<"-">> ELSE <<>>
         IN  sign \o whole \o (IF frac = <<>> THEN <<>> ELSE <<".">> \o frac)

\* ToString of any value
ToChars(v) ==
  CASE v.k = "str" -> v.s
    [] v.k = "null" -> <<"n","u","l","l">>
    [] v.k = "undefined" -> <<"u","n","d","e","f","i","n","e","d">>
    [] OTHER -> NumChars(v)

Text(v) == Join(ToChars(v))

-----------------------------------------------------------------------------
(* Scoring functions.  A result is the object the code returns (the null     *)
(* path of v2/v3 names its text `desc`, every other path `description`), or  *)
(* [threw |-> ...] when the call throws.                                     *)

NoData(r) ==
  IF r = "v1" THEN [score |-> Zero, description |-> "No data"]
  ELSE [score |-> Zero, desc |-> "No data"]

\* v1 tests `current === null`, v2/v3 `curr == null`
IsNoData(r, current) ==
  IF r = "v1" THEN current.k = "null" ELSE IsNullish(current)

\* v1 tests `trendAdjustment !== 0`, v2/v3 `if (adj)`
TrendApplies(r, adj) == IF r = "v1" THEN adj # Zero ELSE Truthy(adj)

\* Math.max(-2, Math.min(2, base))
Clamp2(base) == MathMax(R(-2, 1), MathMin(R(2, 1), base))

TrendWord(applies, adj, up, down) ==
  IF ~applies THEN "" ELSE IF Gt(adj, Zero) THEN up ELSE down

\* The result of a numeric scorer: lad is <<base score, label>> of the ladder,
\* adjusted the base after the trend adjustment, shown the value as printed
Scored(lad, adjusted, shown, word) ==
  [score |-> Clamp2(adjusted), description |-> shown \o lad[2] \o word]

UnemploymentLadder(current) ==
  IF Lt(current, THRESHOLDS.unemployment.veryLow) THEN <<R(2, 1), " (Very Low)">>
  ELSE IF Lt(current, THRESHOLDS.unemployment.low) THEN <<One, " (Low)">>
  ELSE IF Gt(current, THRESHOLDS.unemployment.veryHigh) THEN <<R(-2, 1), " (Very High)">>
  ELSE IF Gt(current, THRESHOLDS.unemployment.high) THEN <<R(-1, 1), " (High)">>
  ELSE <<Zero, " (Normal)">>

UnemploymentResult(r, current, lad, adj) ==
  Scored(lad,
         IF TrendApplies(r, adj) THEN Sub(lad[1], Mul(adj, R(1, 2))) ELSE lad[1],
         Text(current) \o "%",
         TrendWord(TrendApplies(r, adj), adj, " Rising", " Falling"))

calculateUnemploymentScore(r, current, historical) ==
  IF IsNoData(r, current) THEN NoData(r)
  ELSE UnemploymentResult(r, current, UnemploymentLadder(current),
                          calculateTrend(r, historical, TREND_PERIODS))

\* a variant whose target band leaves its two bounds out
CPILadder_open(current) ==
  IF Lt(current, THRESHOLDS.cpi.veryLow) THEN <<R(-1, 1), " (Deflation Risk)">>
  ELSE IF Lt(MathAbs(Sub(current, THRESHOLDS.cpi.target)), THRESHOLDS.cpi.tolerance)
       THEN <<One, " (On Target)">>
  ELSE IF Gt(current, THRESHOLDS.cpi.high) THEN <<R(-2, 1), " (High Inflation)">>
  ELSE IF Gt(current, Add(THRESHOLDS.cpi.target, THRESHOLDS.cpi.tolerance))
       THEN <<R(-1, 1), " (Above Target)">>
  ELSE <<Zero, " (Below Target)">>

CPILadder(current) ==
  IF Lt(current, THRESHOLDS.cpi.veryLow) THEN <<R(-1, 1), " (Deflation Risk)">>
  ELSE IF Le(MathAbs(Sub(current, THRESHOLDS.cpi.target)), THRESHOLDS.cpi.tolerance)
       THEN <<One, " (On Target)">>
  ELSE IF Gt(current, THRESHOLDS.cpi.high) THEN <<R(-2, 1), " (High Inflation)">>
  ELSE IF Gt(current, Add(THRESHOLDS.cpi.target, THRESHOLDS.cpi.tolerance))
       THEN <<R(-1, 1), " (Above Target)">>
  ELSE <<Zero, " (Below Target)">>

\* v1 subtracts trend * 0.3 when current > veryLow, v2/v3 sign(trend) * 0.3
CPIResult(r, current, lad, adj) ==
  Scored(lad,
         IF ~TrendApplies(r, adj) THEN lad[1]
         ELSE IF r = "v1"
              THEN (IF Gt(current, THRESHOLDS.cpi.veryLow)
                    THEN Sub(lad[1], Mul(adj, R(3, 10))) ELSE lad[1])
         ELSE Sub(lad[1], Mul(MathSign(adj), R(3, 10))),
         Text(current) \o "%",
         TrendWord(TrendApplies(r, adj), adj, " Rising", " Falling"))

calculateCPIScore(r, current, historical) ==
  IF IsNoData(r, current) THEN NoData(r)
  ELSE CPIResult(r, current, CPILadder(current),
                 calculateTrend(r, historical, TREND_PERIODS))

\* whether v1's current.toFixed(...) throws: the value is not a number
ToFixedThrows(r, current) == r = "v1" /\ current.k \notin {"num", "NaN", "Inf"}

\* the value as the description prints it: toFixed(f) in v1, `${curr}` after
Shown(r, current, f) == IF r = "v1" THEN Join(toFixed(current, f)) ELSE Text(current)

VIXLadder(current) ==
  IF Lt(current, THRESHOLDS.vix.low) THEN <<One, " (Low Vol)">>
  ELSE IF Lt(current, THRESHOLDS.vix.normal) THEN <<R(1, 2), " (Normal)">>
  ELSE IF Lt(current, THRESHOLDS.vix.elevated) THEN <<R(-1, 2), " (Elevated)">>
  ELSE IF Lt(current, THRESHOLDS.vix.high) THEN <<R(-1, 1), " (High)">>
  ELSE <<R(-2, 1), " (Very High)">>

VIXResult(r, current, lad, adj) ==
  Scored(lad,
         IF TrendApplies(r, adj) THEN Sub(lad[1], Mul(adj, R(2, 5))) ELSE lad[1],
         Shown(r, current, 1),
         TrendWord(TrendApplies(r, adj), adj, " Rising", " Falling"))

calculateVIXScore(r, current, historical) ==
  IF IsNoData(r, current) THEN NoData(r)
  ELSE IF ToFixedThrows(r, current) THEN [threw |-> "TypeError"]
  ELSE VIXResult(r, current, VIXLadder(current),
                 calculateTrend(r, historical, TREND_PERIODS))

W_rising      == <<"r","i","s","i","n","g">>
W_growing     == <<"g","r","o","w","i","n","g">>
W_increasing  == <<"i","n","c","r","e","a","s","i","n","g">>
W_up          == <<"u","p">>
W_positive    == <<"p","o","s","i","t","i","v","e">>
W_expanding   == <<"e","x","p","a","n","d","i","n","g">>
W_falling     == <<"f","a","l","l","i","n","g">>
W_declining   == <<"d","e","c","l","i","n","i","n","g">>
W_decreasing  == <<"d","e","c","r","e","a","s","i","n","g">>
W_down        == <<"d","o","w","n">>
W_negative    == <<"n","e","g","a","t","i","v","e">>
W_contracting == <<"c","o","n","t","r","a","c","t","i","n","g">>

growthTerms(r) ==
  IF r = "v1"
  THEN {W_rising, W_growing, W_increasing, W_up, W_positive, W_expanding}
  ELSE {W_rising, W_positive, W_increasing, W_expanding}

declineTerms(r) ==
  IF r = "v1"
  THEN {W_falling, W_declining, W_decreasing, W_down, W_negative, W_contracting}
  ELSE {W_falling, W_negative, W_decreasing, W_contracting}

\* a variant that looks for the decline words first
GDPLadder_declinefirst(r, txt) ==
  IF \E w \in declineTerms(r) : includes(txt, w) THEN R(-1, 1)
  ELSE IF \E w \in growthTerms(r) : includes(txt, w) THEN One
  ELSE Zero

\* txt is the lower-cased cell text
GDPLadder(r, txt) ==
  IF \E w \in growthTerms(r) : includes(txt, w) THEN One
  ELSE IF \E w \in declineTerms(r) : includes(txt, w) THEN R(-1, 1)
  ELSE Zero

calculateGDPScore(r, current) ==
  IF ~Truthy(current) THEN NoData(r)
  ELSE IF r = "v1" /\ current.k # "str"
       THEN [threw |-> "TypeError"]          \* current.toLowerCase()
  ELSE [score |-> GDPLadder(r, toLowerCase(ToChars(current))),
        description |-> Text(current)]

YieldLadder(current) ==
  IF Gt(current, R(1, 2)) THEN <<One, " (Positive)">>
  ELSE IF Gt(current, R(-1, 2)) THEN <<Zero, " (Flat)">>
  ELSE IF Gt(current, R(-1, 1)) THEN <<R(-1, 1), " (Inverted)">>
  ELSE <<R(-2, 1), " (Deep Inversion)">>

YieldResult(r, current, lad, adj) ==
  Scored(lad,
         IF TrendApplies(r, adj) THEN Add(lad[1], Mul(adj, R(3, 10))) ELSE lad[1],
         Shown(r, current, 2) \o "%",
         TrendWord(TrendApplies(r, adj), adj, " Steepening", " Flattening"))

calculateYieldScore(r, current, historical) ==
  IF IsNoData(r, current) THEN NoData(r)
  ELSE IF ToFixedThrows(r, current) THEN [threw |-> "TypeError"]
  ELSE YieldResult(r, current, YieldLadder(current),
                   calculateTrend(r, historical, TREND_PERIODS))

CreditLadder(current) ==
  IF Lt(current, One) THEN <<One, " (Low)">>
  ELSE IF Lt(current, R(2, 1)) THEN <<Zero, " (Normal)">>
  ELSE IF Lt(current, R(3, 1)) THEN <<R(-1, 1), " (Elevated)">>
  ELSE <<R(-2, 1), " (High)">>

CreditResult(r, current, lad, adj) ==
  Scored(lad,
         IF TrendApplies(r, adj) THEN Sub(lad[1], Mul(adj, R(2, 5))) ELSE lad[1],
         Shown(r, current, 2) \o "%",
         TrendWord(TrendApplies(r, adj), adj, " Widening", " Tightening"))

calculateCreditScore(r, current, historical) ==
  IF IsNoData(r, current) THEN NoData(r)
  ELSE IF ToFixedThrows(r, current) THEN [threw |-> "TypeError"]
  ELSE CreditResult(r, current, CreditLadder(current),
                    calculateTrend(r, historical, TREND_PERIODS))

-----------------------------------------------------------------------------
(* parseFloat and the sheet tables *)

DigitOf(c) == CHOOSE i \in 0..9 : Digits[i + 1] = c
IsDigit(c) == \E i \in 0..9 : Digits[i + 1] = c

RECURSIVE DigitRun(_, _)
\* how many digits the text holds from position i on
DigitRun(chars, i) ==
  IF i <= Len(chars) /\ IsDigit(chars[i]) THEN 1 + DigitRun(chars, i + 1) ELSE 0

RECURSIVE DigitsValue(_, _, _)
\* the value of the k digits from position i on
DigitsValue(chars, i, k) ==
  IF k = 0 THEN 0
  ELSE DigitOf(chars[i + k - 1]) + 10 * DigitsValue(chars, i, k - 1)

RECURSIVE SkipSpaces(_, _)
SkipSpaces(chars, i) ==
  IF i <= Len(chars) /\ chars[i] = " " THEN SkipSpaces(chars, i + 1) ELSE i

\* parseFloat of a string: the longest numeric prefix (sign, digits, fraction),
\* NaN when there is none
parseFloatChars(chars) ==
  LET i0   == SkipSpaces(chars, 1)
      neg  == i0 <= Len(chars) /\ chars[i0] = "-"
      i1   == IF i0 <= Len(chars) /\ chars[i0] \in {"-", "+"} THEN i0 + 1 ELSE i0
      nInt == DigitRun(chars, i1)
      dot  == i1 + nInt <= Len(chars) /\ chars[i1 + nInt] = "."
      nFr  == IF dot THEN DigitRun(chars, i1 + nInt + 1) ELSE 0
      mag  == DigitsValue(chars, i1, nInt) * Pow10(nFr)
              + DigitsValue(chars, i1 + nInt + 1, nFr)
  IN  IF nInt + nFr = 0 THEN NaN
      ELSE R(IF neg THEN -mag ELSE mag, Pow10(nFr))

\* parseFloat(v): the argument is converted to a string first
parseFloat(v) == parseFloatChars(ToChars(v))

\* a || b
OrElse(a, b) == IF Truthy(a) THEN a ELSE b

RECURSIVE RemoveFirst(_, _)
\* String.prototype.replace(c, '') with a one-character pattern
RemoveFirst(chars, c) ==
  IF chars = <<>> THEN <<>>
  ELSE IF Head(chars) = c THEN Tail(chars)
  ELSE <<Head(chars)>> \o RemoveFirst(Tail(chars), c)

RECURSIVE TrimEnd(_)
TrimEnd(chars) ==
  IF chars # <<>> /\ chars[Len(chars)] = " "
  THEN TrimEnd(SubSeq(chars, 1, Len(chars) - 1)) ELSE chars

\* typeof raw === "string" && raw.trim().endsWith("%")
IsPercentString(raw) ==
  /\ raw.k = "str"
  /\ TrimEnd(raw.s) # <<>>
  /\ TrimEnd(raw.s)[Len(TrimEnd(raw.s))] = "%"

\* The allocation of one row of 'Asset Allocations' as each revision parses it:
\* [keep |-> whether the row enters allocMap and tickers, a |-> its value]
parseAllocation_v1(t, raw) ==
  LET a == IF IsPercentString(raw) THEN Div(parseFloat(raw), R(100, 1))
           ELSE parseFloat(raw)
  IN  [keep |-> t # "" /\ ~IsNaN(a), a |-> a]

parseAllocation_v2(t, raw) ==
  LET a == Div(parseFloatChars(RemoveFirst(ToChars(raw), "%")), R(100, 1))
  IN  [keep |-> t # "" /\ ~IsNaN(a), a |-> a]

parseAllocation_v3(t, raw) ==
  LET p == parseFloatChars(RemoveFirst(ToChars(raw), "%"))
      a == IF Gt(p, One) THEN Div(p, R(100, 1)) ELSE p
  IN  [keep |-> ~(t = "" \/ raw = Str(<<>>)), a |-> a]

parseAllocation(r, t, raw) ==
  CASE r = "v1" -> parseAllocation_v1(t, raw)
    [] r = "v2" -> parseAllocation_v2(t, raw)
    [] r = "v3" -> parseAllocation_v3(t, raw)

RECURSIVE loadTickers(_, _)
\* the `tickers` array: the kept rows' tickers in sheet order
loadTickers(r, rows) ==
  IF rows = <<>> THEN <<>>
  ELSE (IF parseAllocation(r, rows[1].t, rows[1].raw).keep
        THEN <<rows[1].t>> ELSE <<>>) \o loadTickers(r, Tail(rows))

Range(seq) == {seq[i] : i \in 1..Len(seq)}

\* the last row of a ticker wins, as repeated assignment to allocMap[t] does
LastRow(rows, t) == rows[CHOOSE i \in 1..Len(rows) :
                           /\ rows[i].t = t
                           /\ \A j \in (i + 1)..Len(rows) : rows[j].t # t]

RECURSIVE KeptRows(_, _)
\* the rows of the sheet that pass the loader's filter
KeptRows(r, rows) ==
  IF rows = <<>> THEN <<>>
  ELSE (IF parseAllocation(r, rows[1].t, rows[1].raw).keep
        THEN <<rows[1]>> ELSE <<>>) \o KeptRows(r, Tail(rows))

AllocOf(r, kept) ==
  [t \in {kept[i].t : i \in 1..Len(kept)} |->
     parseAllocation(r, t, LastRow(kept, t).raw).a]

\* allocMap: ticker -> allocation
loadAllocMap(r, rows) == AllocOf(r, KeptRows(r, rows))

\* a property of a map object, undefined when the key is absent
Lookup(map, key) == IF key \in DOMAIN map THEN map[key] ELSE Undefined

\* classMap, regionMap (strings, "" for an empty cell) and sensMap
loadClassMap(meta)  == [t \in {meta[i].t : i \in 1..Len(meta)} |-> LastRow(meta, t).class]
loadRegionMap(meta) == [t \in {meta[i].t : i \in 1..Len(meta)} |-> LastRow(meta, t).region]
loadSensMap(meta) ==
  [t \in {meta[i].t : i \in 1..Len(meta)} |->
     OrElse(parseFloat(LastRow(meta, t).sens), One)]

\* classMap[t], regionMap[t] as text: "" stands for undefined and for ''
TextAt(map, key) == IF key \in DOMAIN map THEN map[key] ELSE ""

-----------------------------------------------------------------------------
(* Data feeds.  An HTTP response is [code, obs]: the status and the values of *)
(* the observations it carries (FRED serves them as text, newest first when   *)
(* sort_order=desc; StatCan and Yahoo serve numbers or null).                 *)

ScoreKeys == <<"unemployment", "usCPI", "canCPI", "canGDP", "vix",
               "yieldCurve", "creditSpread">>

FRED_SERIES ==
  [unemployment |-> "UNRATE", usCPI |-> "CPIAUCSL", canCPI |-> "CANCPIALLMINMEI",
   canGDP |-> "NGDPRSAXDCCAQ", yieldCurve |-> "T10Y2Y",
   creditSpread |-> "BAMLC0A0CM", vix |-> "VIXCLS"]

\* A fetcher's result: {value, ok} of a latest-value fetcher, or the array of
\* a series fetcher (held in `a`)
Fetched(value, ok) == [value |-> value, ok |-> ok, a |-> <<>>]
Series(a)          == [value |-> Null, ok |-> TRUE, a |-> a]

Failed == Fetched(Null, FALSE)

\* the body of fetchFredLatest's callback
fetchFredLatest_fresh(resp) ==
  IF resp.code # 200 THEN Failed
  ELSE IF resp.obs = <<>> THEN Failed
  ELSE Fetched(parseFloat(resp.obs[1]), TRUE)

\* the body of fetchStatCanCPI's callback
fetchStatCanCPI_fresh(resp) ==
  IF resp.code # 200 THEN Failed
  ELSE IF resp.obs = <<>> THEN Failed
  ELSE Fetched(parseFloat(resp.obs[Len(resp.obs)]), TRUE)

\* the body of fetchYahooVIX's callback: quotes.pop() of an empty array is
\* undefined, and undefined == null
fetchYahooVIX_fresh(resp) ==
  IF resp.code # 200 THEN Failed
  ELSE LET latest == IF resp.obs = <<>> THEN Undefined ELSE resp.obs[Len(resp.obs)]
       IN  IF IsNullish(latest) THEN Failed
           ELSE Fetched(parseFloatChars(toFixed(latest, 2)), TRUE)

\* +text for the texts a feed serves: a complete decimal literal or not a number
NumberOfChars(chars) ==
  IF chars = <<>> THEN Zero
  ELSE IF \A i \in 1..Len(chars) : IsDigit(chars[i]) \/ chars[i] \in {".", "-"}
       THEN parseFloatChars(chars) ELSE NaN

\* the value of an observation: parseFloat(o.value) in v1, +o.value after
ObsValue(r, o) == IF r = "v1" THEN parseFloat(o) ELSE NumberOfChars(o.s)

RECURSIVE KeptReversed(_, _)
\* .filter(...).map(...).reverse(): placeholders and non-numbers dropped, the
\* values old -> new
KeptReversed(r, obs) ==
  IF obs = <<>> THEN <<>>
  ELSE LET o == Head(obs)
           v == ObsValue(r, o)
       IN  IF o # Str(<<".">>) /\ ~IsNaN(v)
           THEN Append(KeptReversed(r, Tail(obs)), v)
           ELSE KeptReversed(r, Tail(obs))

\* the body of fetchFredSeries; a failed request throws inside the try and
\* yields []
fetchFredSeries_fresh(r, resp) ==
  IF resp.code # 200 THEN Series(<<>>)
  ELSE Series(KeptReversed(r, resp.obs))

-----------------------------------------------------------------------------
(* The script cache: key -> [val, exp].  JSON.stringify writes NaN and the    *)
(* infinities as null.                                                        *)

TTL_HOUR     == 3600
TTL_SIXHOURS == 21600

CACHE_VERSION == "v3"

JSONValue(v) == IF v.k \in {"NaN", "Inf"} THEN Null ELSE v

\* JSON.parse(JSON.stringify(x)) of a fetch result or of a series
RECURSIVE JSONArray(_)
JSONArray(a) == IF a = <<>> THEN <<>> ELSE <<JSONValue(Head(a))>> \o JSONArray(Tail(a))

RoundTrip(x) == [x EXCEPT !.value = JSONValue(x.value), !.a = JSONArray(x.a)]

cacheKey(r, key) == IF r = "v3" THEN CACHE_VERSION \o "_" \o key ELSE key

Cached(c, now, k) == k \in DOMAIN c /\ c[k].exp > now

\* a variant that does not hand back a stored failure reading
withCache_okonly(r, c, now, key, fresh) ==
  IF Cached(c, now, cacheKey(r, key)) /\ c[cacheKey(r, key)].val.ok
  THEN c[cacheKey(r, key)].val ELSE fresh

\* what withCache(key, ttl, f) returns when f() would return `fresh`
withCache(r, c, now, key, fresh) ==
  IF Cached(c, now, cacheKey(r, key)) THEN c[cacheKey(r, key)].val ELSE fresh

\* the cache after the withCache calls of `reqs`, a sequence of
\* [key, ttl, fresh] with distinct keys: every miss is stored
cachePut(r, c, now, reqs) ==
  LET miss == {i \in 1..Len(reqs) : ~Cached(c, now, cacheKey(r, reqs[i].key))}
      at(k) == reqs[CHOOSE i \in miss : cacheKey(r, reqs[i].key) = k]
  IN  [k \in DOMAIN c \cup {cacheKey(r, reqs[i].key) : i \in miss} |->
         IF \E i \in miss : cacheKey(r, reqs[i].key) = k
         THEN [val |-> RoundTrip(at(k).fresh), exp |-> now + at(k).ttl]
         ELSE c[k]]

-----------------------------------------------------------------------------
(* Market data of each revision.  A world is what the outside holds:          *)
(*   cells  - column B of the 'Indicators' sheet by indicator (v1)            *)
(*   fredKey - whether FRED_API_KEY is set (v1)                               *)
(*   http   - the response of each latest-value endpoint (v2, v3)             *)
(*   series - the response of each FRED series request                        *)

SeriesKeys_v1 == {"unemployment", "usCPI", "canCPI", "vix"}
SeriesKeys_v2 == {"unemployment", "usCPI", "canCPI", "yieldCurve", "creditSpread", "vix"}

\* getIndicatorData of v1: blank cells are skipped, 0 and NaN become null
getIndicatorData_v1(w) ==
  [k \in Range(ScoreKeys) |->
     LET cell == IF w.cells[k] = Str(<<>>) THEN Undefined ELSE w.cells[k]
     IN  IF k = "canGDP" THEN OrElse(cell, Null)
         ELSE OrElse(parseFloat(cell), Null)]

\* getHistoricalDataFromFRED: null without a key, else the four series
getHistoricalDataFromFRED(w) ==
  [k \in Range(ScoreKeys) |->
     IF w.fredKey /\ k \in SeriesKeys_v1
     THEN Arr(fetchFredSeries_fresh("v1", w.series[k]).a)
     ELSE NoArr]

\* the withCache calls one getEnhancedMarketData of v2/v3 makes, in order
Requests(r, w) ==
  LET latest(k) == [key |-> "FRED_" \o FRED_SERIES[k], ttl |-> TTL_HOUR,
                    fresh |-> fetchFredLatest_fresh(w.http[k])]
      series(k, count) ==
                   [key |-> "FRED_SERIES_" \o FRED_SERIES[k] \o "_" \o count,
                    ttl |-> TTL_SIXHOURS,
                    fresh |-> fetchFredSeries_fresh(r, w.series[k])]
  IN  << latest("unemployment"), latest("usCPI"),
         [key |-> "STATCAN_CPI", ttl |-> TTL_SIXHOURS,
          fresh |-> fetchStatCanCPI_fresh(w.http.canCPI)],
         latest("canGDP"), latest("yieldCurve"), latest("creditSpread"),
         [key |-> "YH_VIX", ttl |-> TTL_HOUR,
          fresh |-> fetchYahooVIX_fresh(w.http.vix)],
         series("unemployment", "6"), series("usCPI", "6"), series("canCPI", "6"),
         series("yieldCurve", "6"), series("creditSpread", "6"),
         series("vix", "180") >>

\* position of each indicator's requests in Requests
LatestAt == [unemployment |-> 1, usCPI |-> 2, canCPI |-> 3, canGDP |-> 4,
             yieldCurve |-> 5, creditSpread |-> 6, vix |-> 7]
SeriesAt == [unemployment |-> 8, usCPI |-> 9, canCPI |-> 10,
             yieldCurve |-> 11, creditSpread |-> 12, vix |-> 13]

\* getIndicatorData of v2/v3: indicator -> {value, ok}
getIndicatorData_v2(r, reqs, c, now) ==
  [k \in Range(ScoreKeys) |->
     withCache(r, c, now, reqs[LatestAt[k]].key, reqs[LatestAt[k]].fresh)]

\* the `hist` object of getEnhancedMarketData (v2/v3); canGDP is []
getHist_v2(r, reqs, c, now) ==
  [k \in Range(ScoreKeys) |->
     IF k \in SeriesKeys_v2
     THEN Arr(withCache(r, c, now, reqs[SeriesAt[k]].key, reqs[SeriesAt[k]].fresh).a)
     ELSE Arr(<<>>)]

\* the seven scorer results from the current values and the series
ScoreAll(r, cur, hst) ==
  [unemployment |-> calculateUnemploymentScore(r, cur.unemployment, hst.unemployment),
   usCPI        |-> calculateCPIScore(r, cur.usCPI, hst.usCPI),
   canCPI       |-> calculateCPIScore(r, cur.canCPI, hst.canCPI),
   canGDP       |-> calculateGDPScore(r, cur.canGDP),
   vix          |-> calculateVIXScore(r, cur.vix, hst.vix),
   yieldCurve   |-> calculateYieldScore(r, cur.yieldCurve, hst.yieldCurve),
   creditSpread |-> calculateCreditScore(r, cur.creditSpread, hst.creditSpread)]

\* whether a scorer threw (v1: a method call on a value of the wrong type)
Threw(res) == \E k \in Range(ScoreKeys) : "threw" \in DOMAIN res[k]

\* the object getEnhancedMarketData returns, from the scorer results
MarketResult(res, cur, ok, hst) ==
  [threw  |-> Threw(res),
   scores |-> [k \in Range(ScoreKeys) |-> IF Threw(res) THEN Zero ELSE res[k].score],
   cur    |-> cur,
   ok     |-> ok,
   hst    |-> hst]

ValuesOf(ind) == [k \in Range(ScoreKeys) |-> ind[k].value]
OksOf(ind)    == [k \in Range(ScoreKeys) |-> ind[k].ok]
AllOk         == [k \in Range(ScoreKeys) |-> TRUE]

getEnhancedMarketData_v1(w) ==
  MarketResult(ScoreAll("v1", getIndicatorData_v1(w), getHistoricalDataFromFRED(w)),
               getIndicatorData_v1(w), AllOk, getHistoricalDataFromFRED(w))

\* ind is getIndicatorData(), hst the `hist` object
MarketData_v2(r, ind, hst) ==
  MarketResult(ScoreAll(r, ValuesOf(ind), hst), ValuesOf(ind), OksOf(ind), hst)

\* getEnhancedMarketData: [threw, scores, cur, ok, hst]; cur is the current
\* values scored, ok the feeds' ok flags and hst the series; reqs is
\* Requests(r, w)
getEnhancedMarketData(r, w, reqs, c, now) ==
  IF r = "v1" THEN getEnhancedMarketData_v1(w)
  ELSE MarketData_v2(r, getIndicatorData_v2(r, reqs, c, now), getHist_v2(r, reqs, c, now))

-----------------------------------------------------------------------------
(* GET_REBALANCE_SIGNAL: regional score, delta, reconciliation, normalisation *)

\* a variant with the weights of v1 in every revision
WEIGHTS_v1(r) ==
  [unemployment |-> R(15, 10), usCPI |-> R(12, 10), canCPI |-> R(8, 10),
   canGDP |-> R(10, 10), vix |-> R(13, 10), yieldCurve |-> R(14, 10),
   creditSpread |-> R(11, 10)]

WEIGHTS(r) ==
  IF r = "v1"
  THEN [unemployment |-> R(15, 10), usCPI |-> R(12, 10), canCPI |-> R(8, 10),
        canGDP |-> R(10, 10), vix |-> R(13, 10), yieldCurve |-> R(14, 10),
        creditSpread |-> R(11, 10)]
  ELSE [unemployment |-> R(12, 10), usCPI |-> R(12, 10), canCPI |-> R(8, 10),
        canGDP |-> R(10, 10), vix |-> R(15, 10), yieldCurve |-> R(17, 10),
        creditSpread |-> R(14, 10)]

minThreshold  == R(5, 1000)
maxSingleMove == R(15, 100)

\* a variant that gives every region the unboosted composite of all indicators
RegionTerms_flat(region) == [i \in 1..Len(ScoreKeys) |-> <<ScoreKeys[i], One>>]

\* [indicator, regional multiplier] pairs of each region
RegionTerms(region) ==
  IF region = "U.S."
  THEN << <<"unemployment", R(15, 10)>>, <<"usCPI", R(13, 10)>>, <<"vix", R(12, 10)>>,
          <<"yieldCurve", R(11, 10)>>, <<"creditSpread", R(11, 10)>> >>
  ELSE IF region = "Canada"
  THEN << <<"canCPI", R(15, 10)>>, <<"canGDP", R(14, 10)>>,
          <<"unemployment", R(7, 10)>>, <<"vix", R(8, 10)>> >>
  ELSE [i \in 1..Len(ScoreKeys) |-> <<ScoreKeys[i], One>>]

\* total += scores[k] * WEIGHTS[k] * m over the region's terms
WeightedTotal(r, terms, scores) ==
  SumSeq([i \in 1..Len(terms) |->
            Mul(Mul(scores[terms[i][1]], WEIGHTS(r)[terms[i][1]]), terms[i][2])])

\* wsum += WEIGHTS[k] * m
WeightSum(r, terms) ==
  SumSeq([i \in 1..Len(terms) |-> Mul(WEIGHTS(r)[terms[i][1]], terms[i][2])])

\* v1 returns totalWeight > 0 ? ... : 0, v2/v3 wsum ? ... : 0
RegionalOf(r, total, wsum) ==
  IF (IF r = "v1" THEN Gt(wsum, Zero) ELSE Truthy(wsum))
  THEN Div(total, wsum) ELSE Zero

\* region is regionMap[t], "" when the ticker has no row or the cell is empty
getRegionalScore(r, region, scores) ==
  RegionalOf(r, WeightedTotal(r, RegionTerms(region), scores),
                WeightSum(r, RegionTerms(region)))

\* a variant of the step function without the two weak-signal levels
baseShiftOf_coarse(regionalScore) ==
  IF      Ge(regionalScore, R(15, 10))  THEN R(8, 100)
  ELSE IF Ge(regionalScore, R(75, 100)) THEN R(5, 100)
  ELSE IF Ge(regionalScore, R(-75, 100)) THEN Zero
  ELSE IF Ge(regionalScore, R(-15, 10)) THEN R(-5, 100)
  ELSE R(-8, 100)

\* the seven-level step function
baseShiftOf(regionalScore) ==
  IF      Ge(regionalScore, R(15, 10))  THEN R(8, 100)
  ELSE IF Ge(regionalScore, R(75, 100)) THEN R(5, 100)
  ELSE IF Ge(regionalScore, R(25, 100)) THEN R(25, 1000)
  ELSE IF Ge(regionalScore, R(-25, 100)) THEN Zero
  ELSE IF Ge(regionalScore, R(-75, 100)) THEN R(-25, 1000)
  ELSE IF Ge(regionalScore, R(-15, 10)) THEN R(-5, 100)
  ELSE R(-8, 100)

\* a variant that also scales the shift at a volatility score of exactly -1
Damped_loose(vixScore, shift) ==
  IF Le(vixScore, R(-1, 1)) THEN Mul(shift, R(7, 10)) ELSE shift

\* if (vixScore < -1) shift *= 0.7
Damped(vixScore, shift) ==
  IF Lt(vixScore, R(-1, 1)) THEN Mul(shift, R(7, 10)) ELSE shift

\* the sign rule of v1: the class and the sign of the regional score
SignedShift(class, regionalScore, baseShift) ==
  IF class = "Defensive"
  THEN (IF Gt(regionalScore, Zero) THEN Neg(baseShift) ELSE baseShift)
  ELSE (IF Gt(regionalScore, Zero) THEN baseShift ELSE Neg(baseShift))

EnhancedDeltaOf(class, regionalScore, sensitivity, vixScore) ==
  SignedShift(class, regionalScore,
              Damped(vixScore, Mul(baseShiftOf(regionalScore), sensitivity)))

\* calculateEnhancedDelta of v1
calculateEnhancedDelta(t, classMap, regionMap, sensMap, scores) ==
  EnhancedDeltaOf(TextAt(classMap, t),
                  getRegionalScore("v1", TextAt(regionMap, t), scores),
                  OrElse(Lookup(sensMap, t), One),
                  OrElse(scores.vix, Zero))

DeltaOf(class, shift) == IF class = "Defensive" THEN Neg(shift) ELSE shift

\* calcDelta of v2 and v3
calcDelta(r, t, classMap, regionMap, sensMap, scores) ==
  DeltaOf(TextAt(classMap, t),
          Damped(scores.vix,
                 Mul(baseShiftOf(getRegionalScore(r, TextAt(regionMap, t), scores)),
                     Lookup(sensMap, t))))

\* sum of f over the entries of a list
SumOver(list, f) == SumSeq([i \in 1..Len(list) |-> f[list[i]]])

\* sum of rawDelta[t] * allocMap[t] over a list
SumMoves(list, rawDelta, allocMap) ==
  SumSeq([i \in 1..Len(list) |-> Mul(rawDelta[list[i]], allocMap[list[i]])])

Count(list, t) == Cardinality({i \in 1..Len(list) : list[i] = t})

RECURSIVE ClassFilter(_, _, _, _)
\* the tickers whose class is `class` (want) or is not (~want), in order
ClassFilter(list, classMap, class, want) ==
  IF list = <<>> THEN <<>>
  ELSE (IF (TextAt(classMap, Head(list)) = class) = want
        THEN <<Head(list)>> ELSE <<>>) \o ClassFilter(Tail(list), classMap, class, want)

\* the tables GET_REBALANCE_SIGNAL loads from the two sheets
Tables(r, allocRows, metaRows) ==
  [allocMap  |-> loadAllocMap(r, allocRows),
   tickers   |-> loadTickers(r, allocRows),
   classMap  |-> loadClassMap(metaRows),
   regionMap |-> loadRegionMap(metaRows),
   sensMap   |-> loadSensMap(metaRows)]

\* raw deltas and the two buckets; v1 keeps only "Equity" in eqList, v2/v3
\* everything that is not "Defensive"
Bucketed(r, tb, scores) ==
  [allocMap |-> tb.allocMap,
   tickers  |-> tb.tickers,
   classMap |-> tb.classMap,
   rawDelta |-> [t \in Range(tb.tickers) |->
                   IF r = "v1"
                   THEN calculateEnhancedDelta(t, tb.classMap, tb.regionMap, tb.sensMap, scores)
                   ELSE calcDelta(r, t, tb.classMap, tb.regionMap, tb.sensMap, scores)],
   defList  |-> ClassFilter(tb.tickers, tb.classMap, "Defensive", TRUE),
   eqList   |-> IF r = "v1" THEN ClassFilter(tb.tickers, tb.classMap, "Equity", TRUE)
                ELSE ClassFilter(tb.tickers, tb.classMap, "Defensive", FALSE)]

\* net move and bucket totals
Netted(b) ==
  b @@ [net      |-> Add(SumMoves(b.defList, b.rawDelta, b.allocMap),
                         SumMoves(b.eqList, b.rawDelta, b.allocMap)),
        defAlloc |-> SumOver(b.defList, b.allocMap),
        eqAlloc  |-> SumOver(b.eqList, b.allocMap)]

\* a variant that hands each bucket the whole net move instead of half of it
Bump_whole(r, occurrences, adj, total) ==
  IF (IF r = "v1" THEN Gt(total, Zero) ELSE Truthy(total))
  THEN Mul(R(occurrences, 1), Div(Mul(adj, R(2, 1)), total)) ELSE Zero

\* what one bucket's forEach adds to rawDelta[t]: adj / total for each
\* occurrence of t in the list, when the total passes the test
Bump(r, occurrences, adj, total) ==
  IF (IF r = "v1" THEN Gt(total, Zero) ELSE Truthy(total))
  THEN Mul(R(occurrences, 1), Div(adj, total)) ELSE Zero

\* a variant that applies the offsets whatever the size of the net move
Offset_nodeadband(r, n, t) ==
  Add(Add(n.rawDelta[t],
          Bump(r, Count(n.defList, t), Div(Neg(n.net), R(2, 1)), n.defAlloc)),
      Bump(r, Count(n.eqList, t), Div(Neg(n.net), R(2, 1)), n.eqAlloc))

\* rawDelta[t] after the balance offsets
Offset(r, n, t) ==
  IF ~Gt(MathAbs(n.net), R(1, 1000)) THEN n.rawDelta[t]
  ELSE Add(Add(n.rawDelta[t],
               Bump(r, Count(n.defList, t), Div(Neg(n.net), R(2, 1)), n.defAlloc)),
           Bump(r, Count(n.eqList, t), Div(Neg(n.net), R(2, 1)), n.eqAlloc))

Reconciled(r, n) == n @@ [delta |-> [t \in Range(n.tickers) |-> Offset(r, n, t)]]

\* a variant that renormalises the deltas as they were before the offsets
RawAllocs_unreconciled(rc) ==
  [t \in Range(rc.tickers) |-> MathMax(Zero, Mul(rc.allocMap[t], Add(One, rc.rawDelta[t])))]

\* Math.max(0, allocMap[t] * (1 + rawDelta[t]))
RawAllocs(rc) ==
  [t \in Range(rc.tickers) |-> MathMax(Zero, Mul(rc.allocMap[t], Add(One, rc.delta[t])))]

Proposed(rc) ==
  rc @@ [rawAlloc |-> RawAllocs(rc), sumNew |-> SumOver(rc.tickers, RawAllocs(rc))]

\* The part of GET_REBALANCE_SIGNAL that does not depend on the requested
\* ticker: tables, raw deltas, reconciliation and the proposals.  Returns
\* every intermediate value.
Portfolio(r, allocRows, metaRows, scores) ==
  Proposed(Reconciled(r, Netted(Bucketed(r, Tables(r, allocRows, metaRows), scores))))

\* the requested ticker's normalised change: newA / oldA - 1
finalDelta(p, assetTicker) ==
  LET oldA == Lookup(p.allocMap, assetTicker)
      newA == Div(MathMax(Zero, Mul(oldA, Add(One, Lookup(p.delta, assetTicker)))),
                  p.sumNew)
  IN  Sub(Div(newA, oldA), One)

\* a variant with the threshold at 5% instead of 0.5%
FormatSignal_wide(finalD) ==
  IF Lt(MathAbs(finalD), R(5, 100)) THEN "Hold"
  ELSE IF Gt(finalD, Zero)
  THEN "Increase " \o Join(toFixed(Mul(finalD, R(100, 1)), 2)) \o "%"
  ELSE "Decrease " \o Join(toFixed(Mul(MathAbs(finalD), R(100, 1)), 2)) \o "%"

\* the text returned for a final delta
FormatSignal(finalD) ==
  IF Lt(MathAbs(finalD), minThreshold) THEN "Hold"
  ELSE IF Gt(finalD, Zero)
  THEN "Increase " \o Join(toFixed(Mul(finalD, R(100, 1)), 2)) \o "%"
  ELSE "Decrease " \o Join(toFixed(Mul(MathAbs(finalD), R(100, 1)), 2)) \o "%"

-----------------------------------------------------------------------------
(* Inputs of the engine: spreadsheets and worlds                              *)

\* texts of the "Can GDP" cell
T_Rising    == Str(<<"R","i","s","i","n","g">>)
T_Shrinking == Str(<<"S","h","r","i","n","k","i","n","g">>)
T_NoChange  == Str(<<"N","o"," ","c","h","a","n","g","e">>)
T_Falling   == Str(<<"f","a","l","l","i","n","g">>)
T_Empty     == Str(<<>>)
T_Mixed     == Str(<<"F","a","l","l","i","n","g",",", " ","r","i","s","i","n","g">>)
T_Growing   == Str(<<"G","r","o","w","i","n","g">>)

Tickers == {"A", "B", "C", "X"}

Pct(n)     == Str(NatChars(n) \o <<"%">>)                 \* the text "n%"
Blank      == Str(<<>>)
AllocRow(t, raw) == [t |-> t, raw |-> raw]
MetaRow(t, class, region, sens) ==
  [t |-> t, class |-> class, region |-> region, sens |-> sens]

Book(name, alloc, meta) == [name |-> name, alloc |-> alloc, meta |-> meta]

MetaAB == << MetaRow("A", "Equity", "U.S.", One), MetaRow("B", "Defensive", "U.S.", One) >>
MetaABC == << MetaRow("A", "Equity", "U.S.", R(12, 10)),
              MetaRow("B", "Defensive", "Canada", Str(<<"0", ".", "8">>)),
              MetaRow("C", "Equity", "", Blank) >>

Books ==
  { Book("sixty-forty", << AllocRow("A", Pct(60)), AllocRow("B", Pct(40)) >>, MetaAB),
    Book("three-regions",
         << AllocRow("A", Pct(50)), AllocRow("B", Pct(30)), AllocRow("C", Pct(20)) >>,
         MetaABC),
    Book("near-balance", << AllocRow("A", Pct(51)), AllocRow("B", Pct(49)) >>, MetaAB),
    Book("ten-ninety", << AllocRow("A", Pct(10)), AllocRow("B", Pct(90)) >>, MetaAB),
    Book("zero-and-blank",
         << AllocRow("A", Pct(0)), AllocRow("B", Pct(100)), AllocRow("C", Blank) >>,
         MetaABC),
    Book("no-metadata-row",
         << AllocRow("A", Pct(60)), AllocRow("B", Pct(40)) >>,
         << MetaRow("A", "Equity", "U.S.", One) >>),
    Book("fractions", << AllocRow("A", R(6, 10)), AllocRow("B", R(4, 10)) >>, MetaAB),
    Book("bare-numbers", << AllocRow("A", R(60, 1)), AllocRow("B", R(40, 1)) >>, MetaAB),
    Book("text-cell",
         << AllocRow("A", Pct(60)), AllocRow("B", Str(<<"n", "/", "a">>)) >>, MetaAB),
    Book("third-class",
         << AllocRow("A", Pct(50)), AllocRow("B", Pct(30)), AllocRow("C", Pct(20)) >>,
         << MetaRow("A", "Equity", "U.S.", One), MetaRow("B", "Defensive", "U.S.", One),
            MetaRow("C", "Cash", "Canada", R(2, 1)) >>),
    Book("all-zero", << AllocRow("A", Pct(0)), AllocRow("B", Pct(0)) >>, MetaAB),
    Book("defensive-only", << AllocRow("B", Pct(100)) >>, MetaAB),
    Book("short-position",
         << AllocRow("A", Pct(110)), AllocRow("B", Str(<<"-", "1", "0", "%">>)) >>,
         MetaAB) }

BookNamed(n) == CHOOSE b \in Books : b.name = n

NumText(v) == Str(NumChars(v))

\* indicator levels of a market regime
Bull == [unemployment |-> R(34, 10), usCPI |-> R(21, 10), canCPI |-> R(2, 1),
         canGDP |-> R(15, 10), vix |-> R(142, 10), yieldCurve |-> R(12, 10),
         creditSpread |-> R(9, 10), gdpText |-> T_Rising]
Bear == [unemployment |-> R(7, 1), usCPI |-> R(5, 1), canCPI |-> R(45, 10),
         canGDP |-> R(-5, 10), vix |-> R(35123, 1000), yieldCurve |-> R(-12, 10),
         creditSpread |-> R(35, 10), gdpText |-> T_Falling]
Mild == [unemployment |-> R(4, 1), usCPI |-> R(21, 10), canCPI |-> R(3, 1),
         canGDP |-> R(1, 10), vix |-> R(22, 1), yieldCurve |-> R(2, 10),
         creditSpread |-> R(15, 10), gdpText |-> T_NoChange]
Soft == [unemployment |-> R(6, 1), usCPI |-> R(3, 1), canCPI |-> R(3, 1),
         canGDP |-> R(-1, 10), vix |-> R(27, 1), yieldCurve |-> R(2, 10),
         creditSpread |-> R(15, 10), gdpText |-> T_Shrinking]

Regimes == {Bull, Bear, Mild, Soft}

\* six observations, newest first, as FRED serves them
FlatObs   == [i \in 1..6 |-> NumText(R(10, 1))]
RisingObs == [i \in 1..6 |-> IF i <= 3 THEN NumText(R(11, 1)) ELSE NumText(R(10, 1))]
GappyObs  == << Str(<<".">>), NumText(R(9, 1)), NumText(R(9, 1)), Str(<<".">>),
                NumText(R(10, 1)), NumText(R(10, 1)) >>
ZeroObs   == [i \in 1..6 |-> NumText(Zero)]

Resp(code, obs) == [code |-> code, obs |-> obs]
NoResp == Resp(0, <<>>)

StatCanOrYahoo == {"canCPI", "vix"}

\* the world of revision r in regime g with series `obs`, the feeds in
\* `missing` failing (v1: the cell blank and the series request failing)
WorldOf(r, g, obs, missing) ==
  [cells  |-> [k \in Range(ScoreKeys) |->
                 IF r # "v1" \/ k \in missing THEN Blank
                 ELSE IF k = "canGDP" THEN g.gdpText ELSE g[k]],
   fredKey |-> TRUE,
   http   |-> [k \in Range(ScoreKeys) |->
                 IF r = "v1" THEN NoResp
                 ELSE IF k \in missing THEN Resp(500, <<>>)
                 ELSE IF k \in StatCanOrYahoo THEN Resp(200, <<g[k]>>)
                 ELSE Resp(200, <<NumText(g[k])>>)],
   series |-> [k \in SeriesKeys_v2 |->
                 IF r = "v1" /\ k \notin SeriesKeys_v1 THEN NoResp
                 ELSE IF k \in missing THEN Resp(500, <<>>)
                 ELSE Resp(200, obs)]]

-----------------------------------------------------------------------------
(* Scorer harness: each scoring function applied once to a (current value,   *)
(* series) pair drawn from bounded sets.                                     *)

MaxLen     == 4        \* longest historical series drawn
MaxPeriods == 3        \* largest lookback handed to calculateTrend

HistVals == {0, 10, 11}

HarnessSeries ==
  UNION {{[i \in 1..n |-> R(f[i], 1)] : f \in [1..n -> HistVals]} : n \in 0..MaxLen}

HarnessHist == {Arr(a) : a \in HarnessSeries} \cup {NoArr}

CurrNums ==
  {R(-2, 1), R(-1, 2), Zero, R(1, 2), One, R(3, 2), R(2, 1), R(5, 2), R(3, 1),
   R(4, 1), R(5, 1), R(6, 1), R(7, 1), R(18, 1), R(22, 1), R(27, 1), R(30, 1)}


CurrTexts == {T_Rising, T_Shrinking, T_NoChange, T_Falling, T_Empty, T_Mixed, T_Growing}

HarnessCurr == CurrNums \cup {Null, Undefined, NaN} \cup CurrTexts

NumericScorers == {"unemployment", "cpi", "vix", "yield", "credit"}
Scorers        == NumericScorers \cup {"gdp"}

HarnessInit ==
  /\ rev \in Revisions
  /\ curr \in HarnessCurr
  /\ hist \in HarnessHist
  /\ op = "idle"
  /\ out = [none |-> TRUE]
  /\ book = BookNamed("sixty-forty")
  /\ world = WorldOf(rev, Mild, FlatObs, {})
  /\ cache = <<>>
  /\ clock = 0

Apply(name, result) ==
  /\ op = "idle"
  /\ op' = name
  /\ out' = result
  /\ UNCHANGED <<rev, curr, hist, book, world, cache, clock>>

ApplyUnemployment ==
  curr.k # "str" /\ Apply("unemployment", calculateUnemploymentScore(rev, curr, hist))

ApplyCPI ==
  curr.k # "str" /\ Apply("cpi", calculateCPIScore(rev, curr, hist))

ApplyVIX ==
  curr.k # "str" /\ Apply("vix", calculateVIXScore(rev, curr, hist))

ApplyGDP == Apply("gdp", calculateGDPScore(rev, curr))

ApplyYield ==
  curr.k # "str" /\ Apply("yield", calculateYieldScore(rev, curr, hist))

ApplyCredit ==
  curr.k # "str" /\ Apply("credit", calculateCreditScore(rev, curr, hist))

T_NotEnough ==
  Str(<<"E","r","r","o","r",":"," ","N","o","t"," ","e","n","o","u","g","h"," ",
        "d","a","t","a"," ","p","o","i","n","t","s">>)

\* the text GET_CANADIAN_GDP_TREND returns from the last two observations,
\* whose values the feed serves as texts
GdpTrendText(latest, prev) ==
  IF Gt(latest, prev) THEN T_Rising
  ELSE IF Lt(latest, prev) THEN T_Shrinking
  ELSE T_NoChange

\* GET_CANADIAN_GDP_TREND() of v1 on the observations `obs`, old -> new
GET_CANADIAN_GDP_TREND(obs) ==
  IF Len(obs) < 2 THEN T_NotEnough
  ELSE GdpTrendText(parseFloat(NumText(obs[Len(obs)])),
                    parseFloat(NumText(obs[Len(obs) - 1])))

\* the cell =GET_CANADIAN_GDP_TREND() of the v1 sheet, scored by
\* calculateGDPScore; the function reads no cell
ApplyGDPTrend ==
  /\ rev = "v1" /\ curr = Null /\ hist.k = "arr"
  /\ \E text \in {GET_CANADIAN_GDP_TREND(hist.a)} :
       Apply("gdptrend", [text |-> text, result |-> calculateGDPScore(rev, text)])

ApplyTrend ==
  \E p \in 1..MaxPeriods :
     Apply("trend", [trend |-> calculateTrend(rev, hist, p), periods |-> p])

HarnessNext ==
  \/ ApplyUnemployment
  \/ ApplyCPI
  \/ ApplyVIX
  \/ ApplyGDP
  \/ ApplyYield
  \/ ApplyCredit
  \/ ApplyGDPTrend
  \/ ApplyTrend

vars == <<rev, curr, hist, op, out, book, world, cache, clock>>

SpecScorers == HarnessInit /\ [][HarnessNext]_vars

-----------------------------------------------------------------------------
(* The engine: GET_REBALANCE_SIGNAL called on a spreadsheet in a world *)

MaxMissing == 2        \* feeds failing at once, short of all of them

CoreWorlds(r) ==
  {WorldOf(r, g, obs, {}) : g \in Regimes, obs \in {FlatObs, RisingObs}}

OutageWorlds(r) ==
  {WorldOf(r, g, FlatObs, m) :
     g \in {Bull, Bear},
     m \in {x \in SUBSET Range(ScoreKeys) :
              Cardinality(x) \in 1..MaxMissing \/ x = Range(ScoreKeys)}}

\* feeds that answer, but not with a usable number
OddWorlds(r) ==
  LET w == WorldOf(r, Bull, GappyObs, {})
  IN  IF r = "v1"
      THEN { [w EXCEPT !.fredKey = FALSE],
             [w EXCEPT !.cells.canGDP = R(15, 10)],
             [w EXCEPT !.cells.vix = Zero, !.cells.usCPI = Str(<<"n", "/", "a">>)],
             WorldOf(r, Mild, ZeroObs, {}) }
      ELSE { [w EXCEPT !.http.yieldCurve = Resp(200, <<Str(<<".">>)>>),
                       !.http.creditSpread = Resp(200, <<Str(<<".">>)>>)],
             [w EXCEPT !.http.unemployment = Resp(200, <<>>),
                       !.http.vix = Resp(200, <<R(14, 1), Null>>),
                       !.http.canCPI = Resp(200, <<Null>>)],
             WorldOf(r, Mild, ZeroObs, {}) }

Init ==
  /\ rev \in Revisions
  /\ \/ book \in Books /\ world \in CoreWorlds(rev) \cup OddWorlds(rev)
     \/ book = BookNamed("sixty-forty") /\ world \in OutageWorlds(rev)
  /\ cache = <<>>
  /\ clock = 0
  /\ curr = Null
  /\ hist = NoArr
  /\ op = "idle"
  /\ out = [none |-> TRUE]

\* the message of the fail-fast check (v1 appends a hint after a dash)
NoMetadata(r, t) ==
  "No metadata for " \o t \o (IF r = "v1" THEN " - check Asset Metadata" ELSE "")

Thrown(t, message) ==
  [outcome |-> "throw", ticker |-> t, error |-> message, signal |-> ""]

\* GET_REBALANCE_SIGNAL(assetTicker).  v1 gathers the market data before it
\* looks the ticker up, v2 looks it up first, v3 does not look it up.
\* reqs, md and p are the requests, the market data and the portfolio of the
\* call, which do not depend on the ticker.
GET_REBALANCE_SIGNAL(t, reqs, md, p) ==
  LET known  == t \in DOMAIN loadClassMap(book.meta)
      noMeta == rev # "v3" /\ ~known
      finalD == finalDelta(p, t)
      warm   == \E i \in 1..Len(reqs) :
                   rev # "v1" /\ Cached(cache, clock, cacheKey(rev, reqs[i].key))
  IN  /\ op' = "signal"
      /\ out' = IF rev = "v1" /\ md.threw THEN Thrown(t, "TypeError")
                ELSE IF noMeta THEN Thrown(t, NoMetadata(rev, t))
                ELSE [outcome |-> "return", ticker |-> t, error |-> "",
                      signal |-> FormatSignal(finalD), finalD |-> finalD,
                      known |-> known, warm |-> warm,
                      scores |-> md.scores, cur |-> md.cur, ok |-> md.ok,
                      hst |-> md.hst,
                      run |-> p]
      /\ cache' = IF rev = "v1" \/ noMeta THEN cache
                  ELSE cachePut(rev, cache, clock, reqs)
      /\ UNCHANGED <<rev, curr, hist, book, world, clock>>

\* one call; the stages are evaluated one after the other
Invoke ==
  \E reqs \in {Requests(rev, world)} :
    \E md \in {getEnhancedMarketData(rev, world, reqs, cache, clock)} :
      \E p \in {Portfolio(rev, book.alloc, book.meta, md.scores)} :
        \E t \in Tickers : GET_REBALANCE_SIGNAL(t, reqs, md, p)

\* the keys CLEAR_ALL_CACHE hands to cache.remove
ClearedKeys ==
  {"FRED_" \o FRED_SERIES[k] : k \in DOMAIN FRED_SERIES} \cup {"STATCAN_CPI", "YH_VIX"}

\* CLEAR_ALL_CACHE() of v3: cache.remove of each key as it is written there
CLEAR_ALL_CACHE ==
  /\ rev = "v3"
  /\ op' = "clear"
  /\ out' = [none |-> TRUE]
  /\ cache' = [k \in DOMAIN cache \ ClearedKeys |-> cache[k]]
  /\ UNCHANGED <<rev, curr, hist, book, world, clock>>

Next ==
  \/ Invoke
  \/ CLEAR_ALL_CACHE

Spec == Init /\ [][Next]_vars

-----------------------------------------------------------------------------
(* The script cache over time: calls of GET_REBALANCE_SIGNAL on one sheet,   *)
(* with the clock of CacheService advancing and the feeds changing between   *)
(* the calls (v2 and v3; v1 has no cache).                                   *)

\* the instants of script-cache time at which something happens: within the
\* hourly lifetime, at its end, and at the end of the six-hour lifetime
Instants == {0, TTL_HOUR \div 2, TTL_HOUR, TTL_SIXHOURS}

\* what the feeds may answer: every request served, or every request failing
CacheWorlds(r) ==
  { WorldOf(r, Bull, FlatObs, {}), WorldOf(r, Bull, FlatObs, Range(ScoreKeys)) }

CacheInit ==
  /\ rev \in {"v2", "v3"}
  /\ book = BookNamed("sixty-forty")
  /\ world \in CacheWorlds(rev)
  /\ cache = <<>>
  /\ clock = 0
  /\ curr = Null
  /\ hist = NoArr
  /\ op = "idle"
  /\ out = [none |-> TRUE]

\* time passes between two calls
Elapse ==
  /\ clock' \in {i \in Instants : i > clock}
  /\ op' = "elapse"
  /\ out' = [none |-> TRUE]
  /\ UNCHANGED <<rev, curr, hist, book, world, cache>>

\* the feeds answer differently from now on
FeedsChange ==
  /\ world' \in CacheWorlds(rev) \ {world}
  /\ op' = "feeds"
  /\ out' = [none |-> TRUE]
  /\ UNCHANGED <<rev, curr, hist, book, cache, clock>>

\* a call for the first ticker of the sheet
InvokeFirst == Invoke /\ out'.ticker = "A"

CacheNext ==
  \/ InvokeFirst
  \/ CLEAR_ALL_CACHE
  \/ Elapse
  \/ FeedsChange

SpecCache == CacheInit /\ [][CacheNext]_vars

-----------------------------------------------------------------------------
(* The loader of GET_REBALANCE_SIGNAL on its own: the 'Asset Allocations'    *)
(* sheet holds two rows, A and B, whose allocation cells are drawn from the  *)
(* kinds of value a cell can hold.                                           *)

\* percentages typed with a percent sign
PercentCells == {Pct(0), Pct(1), Pct(60), Pct(100), Pct(150)}

\* numbers: decimal fractions, and percentages typed without the sign
NumberCells == {Zero, R(1, 100), R(6, 10), One, R(60, 1), R(-5, 1)}

\* numeric texts, a text that is no number, and the empty cell
TextCells == {NumText(R(6, 10)), NumText(R(60, 1)), Str(<<"n", "/", "a">>), Blank}

Cells == PercentCells \cup NumberCells \cup TextCells

LoaderInit ==
  /\ rev \in Revisions
  /\ book \in {Book("pair", <<AllocRow("A", a), AllocRow("B", b)>>, MetaAB) :
                 a \in Cells, b \in Cells}
  /\ world = WorldOf(rev, Mild, FlatObs, {})
  /\ cache = <<>>
  /\ clock = 0
  /\ curr = Null
  /\ hist = NoArr
  /\ op = "idle"
  /\ out = [none |-> TRUE]

\* the allocData.forEach of GET_REBALANCE_SIGNAL: allocMap and tickers
LoadAllocations ==
  /\ op = "idle"
  /\ op' = "load"
  /\ out' = [allocMap |-> loadAllocMap(rev, book.alloc),
             tickers  |-> loadTickers(rev, book.alloc)]
  /\ UNCHANGED <<rev, curr, hist, book, world, cache, clock>>

LoaderNext == LoadAllocations

SpecLoader == LoaderInit /\ [][LoaderNext]_vars

-----------------------------------------------------------------------------
(* The browser snippet: extractTransactions of the original snippet and of   *)
(* the revised one, on a table whose rows are sequences of th/td cells.      *)
(* A cell is [tag, id, text], its texts sequences of characters.             *)

Snippets == {"original", "revised"}

Cell(tag, id, text) == [tag |-> tag, id |-> id, text |-> text]

RECURSIVE RemoveAll(_, _)
\* replace(/c/g, '') for a one-character pattern
RemoveAll(chars, c) ==
  IF chars = <<>> THEN <<>>
  ELSE IF Head(chars) = c THEN RemoveAll(Tail(chars), c)
  ELSE <<Head(chars)>> \o RemoveAll(Tail(chars), c)

RECURSIVE ReplaceFirst(_, _, _)
\* replace(c, d) with one-character strings
ReplaceFirst(chars, c, d) ==
  IF chars = <<>> THEN <<>>
  ELSE IF Head(chars) = c THEN <<d>> \o Tail(chars)
  ELSE <<Head(chars)>> \o ReplaceFirst(Tail(chars), c, d)

\* amount.replace(/\$/, '').replace(/-/, '').replace(/\s/g, '').replace(',', '.')
normalizeAmount(amount) ==
  ReplaceFirst(RemoveAll(RemoveFirst(RemoveFirst(amount, "$"), "-"), " "), ",", ".")

\* whether /\d{4}-\d{2}-\d{2}/ matches the text at position i
IsDateAt(chars, i) ==
  /\ i + 9 <= Len(chars)
  /\ \A j \in {0, 1, 2, 3, 5, 6, 8, 9} : IsDigit(chars[i + j])
  /\ chars[i + 4] = "-" /\ chars[i + 7] = "-"

HasDate(id) == \E i \in 1..Len(id) : IsDateAt(id, i)

\* id.match(...)[0]: the leftmost match; the function throws without one
extractDateFromId(id) ==
  SubSeq(id, CHOOSE i \in 1..Len(id) : IsDateAt(id, i) /\ \A j \in 1..(i - 1) : ~IsDateAt(id, j),
         9 + CHOOSE i \in 1..Len(id) : IsDateAt(id, i) /\ \A j \in 1..(i - 1) : ~IsDateAt(id, j))

\* text.trim()
Trim(chars) == TrimEnd(SubSeq(chars, SkipSpaces(chars, 1), Len(chars)))

\* whether /\s-\s(\d+)/ matches the text at position i
IsIdAt(chars, i) ==
  /\ i + 3 <= Len(chars)
  /\ chars[i] = " " /\ chars[i + 1] = "-" /\ chars[i + 2] = " "
  /\ IsDigit(chars[i + 3])

\* /\s-\s(\d+)/.exec(description)?.[1] || ''
transactionIdOf(description) ==
  IF \A i \in 1..Len(description) : ~IsIdAt(description, i) THEN <<>>
  ELSE SubSeq(description,
              3 + CHOOSE i \in 1..Len(description) :
                     IsIdAt(description, i) /\ \A j \in 1..(i - 1) : ~IsIdAt(description, j),
              2 + (CHOOSE i \in 1..Len(description) :
                     IsIdAt(description, i) /\ \A j \in 1..(i - 1) : ~IsIdAt(description, j))
                + DigitRun(description,
                           3 + CHOOSE i \in 1..Len(description) :
                                 IsIdAt(description, i)
                                 /\ \A j \in 1..(i - 1) : ~IsIdAt(description, j)))

RECURSIVE DoubleQuotes(_)
\* description.replace(/"/g, '""')
DoubleQuotes(chars) ==
  IF chars = <<>> THEN <<>>
  ELSE IF Head(chars) = "\"" THEN <<"\"", "\"">> \o DoubleQuotes(Tail(chars))
  ELSE <<Head(chars)>> \o DoubleQuotes(Tail(chars))

RECURSIVE TdOnly(_)
\* row.querySelectorAll('td')
TdOnly(row) ==
  IF row = <<>> THEN <<>>
  ELSE (IF Head(row).tag = "td" THEN <<Head(row)>> ELSE <<>>) \o TdOnly(Tail(row))

\* the cells a snippet selects from a row: 'td' in the original snippet,
\* 'th, td' in the revised one
cellsOf(s, row) == IF s = "original" THEN TdOnly(row) ELSE row

\* a variant that asks five cells of both snippets
minCells_five(s) == 5

\* the fewest cells of a row that is not skipped
minCells(s) == IF s = "original" THEN 5 ELSE 4

CsvHeader == <<"Date", "Description", "Transaction", "Debit", "Credit", "Total">>

\* the line pushed for a row from its selected cells, as its six fields (each
\* is written between double quotes); the revised snippet leaves the total
\* empty when the row has no fifth cell
csvLine(cells) ==
  << Join(extractDateFromId(cells[1].id)),
     Join(DoubleQuotes(Trim(cells[2].text))),
     Join(transactionIdOf(Trim(cells[2].text))),
     Join(normalizeAmount(cells[3].text)),
     Join(normalizeAmount(cells[4].text)),
     IF Len(cells) >= 5 THEN Join(normalizeAmount(cells[5].text)) ELSE "" >>

RECURSIVE csvLinesOf(_, _)
\* rows.forEach(...): the lines pushed, in row order
csvLinesOf(s, rows) ==
  IF rows = <<>> THEN <<>>
  ELSE (IF Len(cellsOf(s, Head(rows))) < minCells(s) THEN <<>>
        ELSE <<csvLine(cellsOf(s, Head(rows)))>>) \o csvLinesOf(s, Tail(rows))

\* whether extractDateFromId throws on a row that is not skipped
DateThrows(s, rows) ==
  \E i \in 1..Len(rows) :
     /\ Len(cellsOf(s, rows[i])) >= minCells(s)
     /\ ~HasDate(cellsOf(s, rows[i])[1].id)

\* extractTransactions(table): the lines of the CSV, or the error thrown
extractTransactions(s, rows) ==
  IF DateThrows(s, rows)
  THEN [outcome |-> "throw", error |-> "Could not extract a valid date", lines |-> <<>>]
  ELSE [outcome |-> "return", error |-> "", lines |-> <<CsvHeader>> \o csvLinesOf(s, rows)]

MaxRows == 3           \* most rows of a table drawn

DatedId   == <<"t", "x", "-", "2", "0", "2", "4", "-", "0", "1", "-", "0", "5">>
LaterId   == <<"t", "x", "-", "2", "0", "2", "4", "-", "0", "2", "-", "1", "1">>
PlainId   == <<"r", "o", "w", "7">>
Coffee    == <<" ", "C", "o", "f", "f", "e", "e", " ", "-", " ", "4", "2", " ">>
Rent      == <<"R", "e", "n", "t", " ", "\"", "M", "a", "y", "\"">>
Spent     == <<"-", "$", "1", " ", "2", "3", "4", ",", "5", "0">>
Balance   == <<"$", "9", "0", "0", ",", "0", "0">>

\* the shapes of row drawn: five td cells; a th date cell before four or three
\* td cells; a row of two cells; rows whose first cell has no date in its id
RowShapes ==
  { << Cell("td", DatedId, <<>>), Cell("td", <<>>, Coffee), Cell("td", <<>>, Spent),
       Cell("td", <<>>, <<>>), Cell("td", <<>>, Balance) >>,
    << Cell("th", LaterId, <<>>), Cell("td", <<>>, Rent), Cell("td", <<>>, Spent),
       Cell("td", <<>>, <<>>), Cell("td", <<>>, Balance) >>,
    << Cell("th", DatedId, <<>>), Cell("td", <<>>, Rent), Cell("td", <<>>, <<>>),
       Cell("td", <<>>, Balance) >>,
    << Cell("td", <<>>, <<>>), Cell("td", <<>>, Coffee) >>,
    << Cell("td", PlainId, <<>>), Cell("td", <<>>, Coffee), Cell("td", <<>>, Spent),
       Cell("td", <<>>, <<>>), Cell("td", <<>>, Balance) >>,
    << Cell("th", <<>>, <<>>), Cell("td", DatedId, Rent), Cell("td", <<>>, Spent),
       Cell("td", <<>>, <<>>), Cell("td", <<>>, Balance), Cell("td", <<>>, <<>>) >> }

PageTables == UNION {[1..n -> RowShapes] : n \in 0..MaxRows}

SnippetInit ==
  /\ rev \in Snippets
  /\ world \in {[table |-> t] : t \in PageTables}
  /\ book = [none |-> TRUE]
  /\ cache = <<>>
  /\ clock = 0
  /\ curr = Null
  /\ hist = NoArr
  /\ op = "idle"
  /\ out = [none |-> TRUE]

\* const csvContent = extractTransactions(table)
Extract ==
  /\ op = "idle"
  /\ op' = "extract"
  /\ out' = extractTransactions(rev, world.table)
  /\ UNCHANGED <<rev, curr, hist, book, world, cache, clock>>

SnippetNext == Extract

SpecSnippet == SnippetInit /\ [][SnippetNext]_vars

-----------------------------------------------------------------------------
(* The regional score over combinations of readings: every indicator is at   *)
(* its most or at its least favourable reading, with a falling or a rising   *)
(* series, independently of the others (v2 and v3).                          *)

FallingSeries == Arr(<<R(20, 1), R(10, 1), R(10, 1), R(10, 1)>>)
RisingSeries  == Arr(<<R(10, 1), R(20, 1), R(20, 1), R(20, 1)>>)

Regions == {"U.S.", "Canada", "Global"}

RatingInit ==
  /\ rev \in {"v2", "v3"}
  /\ world \in [cur : [unemployment : {R(3, 1), R(7, 1)},
                       usCPI        : {R(2, 1), R(5, 1)},
                       canCPI       : {R(2, 1), R(5, 1)},
                       canGDP       : {T_Rising, T_Falling},
                       vix          : {R(10, 1), R(35, 1)},
                       yieldCurve   : {One, R(-2, 1)},
                       creditSpread : {R(1, 2), R(4, 1)}],
                hst : [unemployment : {FallingSeries, RisingSeries},
                       usCPI        : {FallingSeries, RisingSeries},
                       canCPI       : {FallingSeries, RisingSeries},
                       canGDP       : {Arr(<<>>)},
                       vix          : {FallingSeries, RisingSeries},
                       yieldCurve   : {FallingSeries, RisingSeries},
                       creditSpread : {FallingSeries, RisingSeries}]]
  /\ book = [none |-> TRUE]
  /\ cache = <<>>
  /\ clock = 0
  /\ curr = Null
  /\ hist = NoArr
  /\ op = "idle"
  /\ out = [none |-> TRUE]

\* the scores of getEnhancedMarketData, then getRegionalScore and the step
\* function of calcDelta for an asset of each region
Rated(scores, regional) ==
  [scores   |-> scores,
   regional |-> regional,
   shift    |-> [g \in Regions |-> baseShiftOf(regional[g])]]

\* the stages are evaluated one after the other
Rate ==
  /\ op = "idle"
  /\ op' = "rate"
  /\ \E res \in {ScoreAll(rev, world.cur, world.hst)} :
       \E scores \in {[k \in Range(ScoreKeys) |-> res[k].score]} :
         \E regional \in {[g \in Regions |-> getRegionalScore(rev, g, scores)]} :
           out' = Rated(scores, regional)
  /\ UNCHANGED <<rev, curr, hist, book, world, cache, clock>>

RatingNext == Rate

SpecRegional == RatingInit /\ [][RatingNext]_vars

-----------------------------------------------------------------------------
(* Claims about the scorers and the trend estimator *)

\* C5: every indicator scorer returns a score that is a number in [-2, 2],
\* for every current value and every historical series.  Stated for the
\* values each scorer is written for: a number or null for the five numeric
\* scorers, a text or null for the GDP scorer.
C5_ClampInvariant ==
  (\/ op \in NumericScorers /\ curr.k \in {"num", "null"}
   \/ op = "gdp" /\ curr.k \in {"str", "null"}) =>
     ("score" \in DOMAIN out /\ InRange(out.score, R(-2, 1), R(2, 1)))

\* C6: for every scorer a null or absent current value yields score 0 and
\* the description "No data".  Stated for null, which every revision tests.
C6_NoDataResult ==
  (op \in Scorers /\ curr = Null) =>
     /\ "score" \in DOMAIN out /\ out.score = Zero
     /\ "description" \in DOMAIN out /\ out.description = "No data"

\* C7: calculateTrend(series, periods) is exactly 0 for every series whose
\* length is at most periods, a null or empty series included.
C7_ShortSeriesTrendZero ==
  (op = "trend" /\ Len(hist.a) <= out.periods) => out.trend = Zero

\* C7 witness: calculateTrend has run on a series of exactly `periods` points
\* (at least two of them, the newest differing from the oldest).
C7_Witness ==
  /\ op = "trend"
  /\ hist.k = "arr"
  /\ Len(hist.a) = out.periods
  /\ Len(hist.a) >= 2
  /\ hist.a[1] # hist.a[Len(hist.a)]
  /\ hist.a[1] # Zero
  /\ out.trend = Zero

-----------------------------------------------------------------------------
(* Claims about GET_REBALANCE_SIGNAL *)

Called    == op = "signal"
Returned  == op = "signal" /\ out.outcome = "return"
HasMetadata == out.ticker \in DOMAIN loadClassMap(book.meta)
\* allocMap[assetTicker] of the call
Allocation == Lookup(loadAllocMap(rev, book.alloc), out.ticker)

\* C1: a call with a ticker that has no row in Asset Metadata throws (a
\* 'No metadata' error) and never returns a signal string, whatever the
\* allocations and indicator readings are.  The formula asks for the throw.
C1_UnknownTickerRejected ==
  (Called /\ ~HasMetadata) => out.outcome = "throw"

\* C2: when the requested ticker has metadata but its allocation is zero or
\* absent from the allocation table, the call surfaces an error and returns
\* no signal string.
C2_ZeroAllocationRejected ==
  (Called /\ HasMetadata /\ (Allocation = Undefined \/ Allocation = Zero)) =>
     out.outcome = "throw"

\* an indicator whose reading is missing: the feed failed or the value is null
Missing(k) == ~out.ok[k] \/ IsNullish(out.cur[k])

\* C3: for a ticker with metadata and a positive allocation the call does not
\* throw, every missing indicator is scored 0 and the signal is "Hold" or an
\* "Increase"/"Decrease" of N.NN%, i.e. the final delta is a number.
C3_MissingDataNeverAnError ==
  (Called /\ HasMetadata /\ Gt(Allocation, Zero)) =>
     /\ out.outcome = "return"
     /\ \A k \in Range(ScoreKeys) : Missing(k) => out.scores[k] = Zero
     /\ IsNum(out.finalD)

\* sum of delta[t] * allocMap[t] over the tickers of a list, after reconciliation
Moves(list) == SumMoves(list, out.run.delta, out.run.allocMap)

\* |x| <= 1e-6 for a ratio of 32-bit integers
WithinMillionth(x) ==
  IsNum(x) /\ (x.n = 0 \/ (AbsInt(x.n) <= 2147 /\ AbsInt(x.n) * 1000000 <= x.d))

\* the test a bucket total has to pass for its tickers to be offset
Passes(total) == IF rev = "v1" THEN Gt(total, Zero) ELSE Truthy(total)

\* every loaded ticker is in one of the two lists
AllBucketed == Len(out.run.defList) + Len(out.run.eqList) = Len(out.run.tickers)

Hundredths(x) == (2 * AbsInt(x.n) * 10000 + x.d) \div (2 * x.d)
PercentText(x) ==
  Join(NatChars(Hundredths(x) \div 100) \o <<".">>
       \o PadChars(NatChars(Hundredths(x) % 100), 2) \o <<"%">>)

Normalized(t) == Div(out.run.rawAlloc[t], out.run.sumNew)

\* C9: the proposed allocations max(0, allocation * (1 + delta)) are never
\* negative and, divided by sumNew, sum to 1 over all tickers.
C9_ProposalsSumToOne ==
  (Returned /\ out.run.tickers # <<>>) =>
     /\ \A t \in Range(out.run.tickers) : Ge(out.run.rawAlloc[t], Zero)
     /\ SumSeq([i \in 1..Len(out.run.tickers) |-> Normalized(out.run.tickers[i])]) = One

\* C10: two calls with the same ticker, tables and external data return the
\* same signal string, whether the readings of the second are fetched afresh
\* or served from the cache.
C10_Idempotent ==
  [][(op = "signal" /\ op' = "signal"
        /\ out.outcome = "return" /\ out'.outcome = "return"
        /\ out'.ticker = out.ticker) => out'.signal = out.signal]_vars

-----------------------------------------------------------------------------
(* Claims about the fetchers and the cache *)

\* C11: every fetcher returns a well-formed result for every outcome of the
\* HTTP call: ok = false goes with value null, ok = true only with a numeric
\* value, and a series is an array of numbers (empty on failure).  Read off
\* the results the fetchers handed to a call of v2 or v3.
C11_FetchersWellFormed ==
  (Returned /\ rev # "v1") =>
     \A k \in Range(ScoreKeys) :
        /\ out.ok[k] => IsNum(out.cur[k])
        /\ ~out.ok[k] => out.cur[k] = Null
        /\ out.hst[k].k = "arr"
        /\ \A i \in 1..Len(out.hst[k].a) : IsNum(out.hst[k].a[i])

\* the names under which the latest-value fetchers call withCache
LatestKeys == {Requests(rev, world)[LatestAt[k]].key : k \in Range(ScoreKeys)}

\* C12: once CLEAR_ALL_CACHE has run, no latest-value fetcher (fetchFredLatest
\* of any configured series, fetchStatCanCPI, fetchYahooVIX) finds its entry in
\* the cache, so its next call invokes the real fetch.
C12_ClearedMeansMiss ==
  op = "clear" =>
     \A key \in LatestKeys : ~Cached(cache, clock, cacheKey(rev, key))

-----------------------------------------------------------------------------
(* Claims about the size and the sign of the moves *)

\* a call on sheets that are in order: every allocation is positive, the
\* allocations sum to 1 and every allocated ticker has a metadata row
SoundBook ==
  /\ Returned
  /\ \A t \in Range(out.run.tickers) :
        Gt(out.run.allocMap[t], Zero) /\ t \in DOMAIN out.run.classMap
  /\ SumOver(out.run.tickers, out.run.allocMap) = One

\* C13: no single asset's recommended move exceeds maxSingleMove: for every
\* asset universe, sensitivity and set of scores the final delta of the
\* requested ticker is at most 0.15 in magnitude.  Stated for sheets that
\* are in order and a requested ticker that is allocated.
C13_MoveWithinMaxSingleMove ==
  (SoundBook /\ IsNum(out.finalD)) => Le(MathAbs(out.finalD), maxSingleMove)

\* the older prefix of a series longer than `periods`
OlderPrefix == SubSeq(hist.a, 1, Len(hist.a) - out.periods)

\* C14: calculateTrend returns 0 whenever the average of the older prefix of
\* the series is 0, for every recent suffix: no NaN, no saturated trend.
C14_ZeroOlderAverageTrendZero ==
  (op = "trend" /\ hist.k = "arr" /\ Len(hist.a) > out.periods
     /\ Avg(OlderPrefix) = Zero) => out.trend = Zero

-----------------------------------------------------------------------------
(* Claims about the reconciliation step *)

\* the tickers of both lists
InBuckets == Range(out.run.defList) \cup Range(out.run.eqList)

\* the proposal of a ticker from a delta: max(0, allocation * (1 + delta))
ProposalFrom(t, delta) == MathMax(Zero, Mul(out.run.allocMap[t], Add(One, delta)))

ShareOf(total) ==
  IF total = Zero THEN Zero ELSE Div(Div(Neg(out.run.net), R(2, 1)), total)

\* total allocation of the tickers whose class is (want) or is not Defensive
ClassTotal(want) ==
  SumOver(ClassFilter(out.run.tickers, out.run.classMap, "Defensive", want),
          out.run.allocMap)

\* allocations in the range the sheet is meant to hold
AllocationsInRange ==
  \A t \in Range(out.run.tickers) : InRange(out.run.allocMap[t], Zero, One)

-----------------------------------------------------------------------------
(* Claims about the raw delta of a ticker *)

\* the metadata of an allocated ticker and the regional score of the call
Described(t)   == t \in DOMAIN out.run.classMap
ClassOf(t)     == TextAt(out.run.classMap, t)
RegionOf(t)    == TextAt(loadRegionMap(book.meta), t)
Sensitivity(t) == Lookup(loadSensMap(book.meta), t)
RegionScore(t) == getRegionalScore(rev, RegionOf(t), out.scores)

\* the allocated tickers that have a metadata row
Assets == {t \in Range(out.run.tickers) : Described(t)}

\* C17: the raw delta of a Defensive asset is the exact negation of the raw
\* delta of a Growth asset with the same region and sensitivity, and a Growth
\* asset's raw delta is never negative when its regional score is >= 0.25
\* and never positive when it is < -0.25.  Stated for the class "Equity" and
\* a sensitivity above zero.
C17_DefensiveMirrorsGrowth ==
  Returned =>
     /\ \A t \in Assets : \A u \in Assets :
          (ClassOf(t) = "Defensive" /\ ClassOf(u) = "Equity"
             /\ RegionOf(t) = RegionOf(u) /\ Sensitivity(t) = Sensitivity(u)
             /\ IsNum(out.run.rawDelta[u])) =>
             out.run.rawDelta[t] = Neg(out.run.rawDelta[u])
     /\ \A u \in Assets :
          (ClassOf(u) = "Equity" /\ Gt(Sensitivity(u), Zero)) =>
             /\ Ge(RegionScore(u), R(25, 100)) => Ge(out.run.rawDelta[u], Zero)
             /\ Lt(RegionScore(u), R(-25, 100)) => Le(out.run.rawDelta[u], Zero)

\* the step function as the specification tabulates it: [floor, shift]
ShiftTable ==
  << <<R(15, 10), R(8, 100)>>, <<R(75, 100), R(5, 100)>>, <<R(25, 100), R(25, 1000)>>,
     <<R(-25, 100), Zero>>, <<R(-75, 100), R(-25, 1000)>>, <<R(-15, 10), R(-5, 100)>> >>

RECURSIVE StepFrom(_, _)
\* the shift of the first row from row i on whose floor the score reaches
StepFrom(score, i) ==
  IF i > Len(ShiftTable) THEN R(-8, 100)
  ELSE IF Ge(score, ShiftTable[i][1]) THEN ShiftTable[i][2]
  ELSE StepFrom(score, i + 1)

\* regional scores at and next to every floor of the table
SampleScores ==
  {R(n, 100) : n \in {-200, -151, -150, -76, -75, -26, -25, 0, 24, 25, 74, 75,
                      149, 150, 200}}

\* 0.7 when the volatility score is below -1, else 1
Dampening == IF Lt(out.scores.vix, R(-1, 1)) THEN R(7, 10) ELSE One

\* <<ticker, regional score>> of the assets whose regional score and
\* sensitivity are numbers
Ratings ==
  {p \in {<<t, RegionScore(t)>> : t \in Assets} :
     IsNum(p[2]) /\ IsNum(Sensitivity(p[1]))}

\* step * sensitivity, * 0.7 when dampened
ShiftFor(t, score) == Mul(Mul(StepFrom(score, 1), Sensitivity(t)), Dampening)

\* C18: the base shift is the seven-level step function of the regional score
\* (>= 1.5: +0.08, >= 0.75: +0.05, >= 0.25: +0.025, >= -0.25: 0, >= -0.75:
\* -0.025, >= -1.5: -0.05, lower: -0.08), is non-decreasing in the score
\* (checked at the scores of the call against every floor of the table), and
\* is then multiplied by the asset's sensitivity: the raw delta has the
\* magnitude of step * sensitivity (* 0.7 when dampened), and in v2 and v3 a
\* Growth asset's raw delta is that product itself.
C18_SevenStepBaseShift ==
  Returned =>
     /\ \A x \in SampleScores : baseShiftOf(x) = StepFrom(x, 1)
     /\ \A p \in Ratings :
          /\ baseShiftOf(p[2]) = StepFrom(p[2], 1)
          /\ \A y \in SampleScores :
               /\ Le(p[2], y) => Le(baseShiftOf(p[2]), baseShiftOf(y))
               /\ Le(y, p[2]) => Le(baseShiftOf(y), baseShiftOf(p[2]))
          /\ MathAbs(out.run.rawDelta[p[1]]) = MathAbs(ShiftFor(p[1], p[2]))
          /\ (rev # "v1" /\ ClassOf(p[1]) # "Defensive") =>
               out.run.rawDelta[p[1]] = ShiftFor(p[1], p[2])

\* C18 witness: a call with two assets on different levels of the step
\* function, one of them on a weak-signal level with a sensitivity other than 1.
C18_Witness ==
  /\ Returned
  /\ \E p \in Ratings : \E q \in Ratings :
        /\ MathAbs(StepFrom(p[2], 1)) = R(25, 1000)
        /\ Sensitivity(p[1]) # One
        /\ out.run.rawDelta[p[1]] # Zero
        /\ StepFrom(q[2], 1) # StepFrom(p[2], 1)

\* the shift of an asset before dampening: base shift * sensitivity
Undamped(p) == MathAbs(Mul(baseShiftOf(p[2]), Sensitivity(p[1])))

-----------------------------------------------------------------------------
(* Claims about the regional score *)

\* the boost the claim gives an indicator in a region, 0 outside its subset
BoostOf(region, k) ==
  IF region = "U.S."
  THEN (CASE k = "unemployment" -> R(15, 10) [] k = "usCPI" -> R(13, 10)
          [] k = "vix" -> R(12, 10) [] k = "yieldCurve" -> R(11, 10)
          [] k = "creditSpread" -> R(11, 10) [] OTHER -> Zero)
  ELSE IF region = "Canada"
  THEN (CASE k = "canCPI" -> R(15, 10) [] k = "canGDP" -> R(14, 10)
          [] k = "unemployment" -> R(7, 10) [] k = "vix" -> R(8, 10)
          [] OTHER -> Zero)
  ELSE One

\* sum over the seven indicators of weight * boost, times the score or 1
BoostedWeights(region) ==
  SumSeq([i \in 1..Len(ScoreKeys) |->
            Mul(WEIGHTS(rev)[ScoreKeys[i]], BoostOf(region, ScoreKeys[i]))])
BoostedScores(region) ==
  SumSeq([i \in 1..Len(ScoreKeys) |->
            Mul(out.scores[ScoreKeys[i]],
                Mul(WEIGHTS(rev)[ScoreKeys[i]], BoostOf(region, ScoreKeys[i])))])

AllScored == \A k \in Range(ScoreKeys) : IsNum(out.scores[k])

\* C20: the regional score of an asset is the weighted average of the
\* indicator scores over its region's subset with the region's boosts (U.S.:
\* unemployment 1.5, US CPI 1.3, volatility 1.2, yield curve 1.1, credit
\* spread 1.1; Canada: Canadian CPI 1.5, GDP 1.4, unemployment 0.7,
\* volatility 0.8; any other or missing region: every weighted indicator,
\* unboosted), and it is 0 when the sum of the weights used is zero.  The
\* configured weights are all positive, so the last case is checked on the
\* final expression of the function.
C20_RegionalWeightedAverage ==
  (Returned /\ AllScored) =>
     \A t \in Range(out.run.tickers) :
        /\ RegionScore(t) = Div(BoostedScores(RegionOf(t)), BoostedWeights(RegionOf(t)))
        /\ RegionalOf(rev, BoostedScores(RegionOf(t)), Zero) = Zero

\* C20 witness: a call on a universe with a U.S. asset, a Canadian asset and
\* an asset of no region, scored differently.
C20_Witness ==
  /\ Returned /\ AllScored
  /\ \E t \in Assets : \E u \in Assets : \E v \in Assets :
        /\ RegionOf(t) = "U.S." /\ RegionOf(u) = "Canada"
        /\ RegionOf(v) \notin {"U.S.", "Canada"}
        /\ RegionScore(t) # RegionScore(u)
        /\ RegionScore(u) # RegionScore(v)
        /\ RegionScore(t) # RegionScore(v)

-----------------------------------------------------------------------------
(* Claims about the trend adjustment and the ladders of the scorers *)

\* the trend the scorers compute from the series they are handed
TrendNow == calculateTrend(rev, hist, TREND_PERIODS)

\* the base score of the ladder of the scorer that ran
BaseOf(name) ==
  CASE name = "unemployment" -> UnemploymentLadder(curr)[1]
    [] name = "cpi"          -> CPILadder(curr)[1]
    [] name = "vix"          -> VIXLadder(curr)[1]
    [] name = "yield"        -> YieldLadder(curr)[1]
    [] name = "credit"       -> CreditLadder(curr)[1]

\* the adjustment the specification subtracts from the base score
SpecAdjustment(name, trend) ==
  CASE name = "unemployment"      -> Mul(trend, R(1, 2))
    [] name = "cpi"               -> Mul(MathSign(trend), R(3, 10))
    [] name \in {"vix", "credit"} -> Mul(trend, R(2, 5))
    [] name = "yield"             -> Neg(Mul(trend, R(3, 10)))

\* C21: for a numeric current value and a numeric trend, the score of a
\* numeric scorer is the clamp of the ladder's base score less trend * 0.5
\* (unemployment), less 0.3 * sign(trend) (either CPI), less trend * 0.4
\* (volatility, credit spread), plus trend * 0.3 (yield curve); so a rising
\* trend never leaves the score above the clamped base score, except for the
\* yield curve, where it never leaves it below.
C21_TrendAdjustment ==
  (op \in NumericScorers /\ IsNum(curr) /\ IsNum(TrendNow)) =>
     /\ "score" \in DOMAIN out
     /\ out.score = Clamp2(Sub(BaseOf(op), SpecAdjustment(op, TrendNow)))
     /\ Gt(TrendNow, Zero) =>
          IF op = "yield" THEN Ge(out.score, Clamp2(BaseOf(op)))
          ELSE Le(out.score, Clamp2(BaseOf(op)))

\* the classification of a CPI reading as the specification words it
CPIClass(c) ==
  IF Lt(c, THRESHOLDS.cpi.veryLow) THEN R(-1, 1)
  ELSE IF /\ Le(Sub(THRESHOLDS.cpi.target, THRESHOLDS.cpi.tolerance), c)
          /\ Le(c, Add(THRESHOLDS.cpi.target, THRESHOLDS.cpi.tolerance)) THEN One
  ELSE IF Gt(c, THRESHOLDS.cpi.high) THEN R(-2, 1)
  ELSE IF Gt(c, Add(THRESHOLDS.cpi.target, THRESHOLDS.cpi.tolerance)) THEN R(-1, 1)
  ELSE Zero

Mentions(terms) == \E w \in terms : includes(toLowerCase(curr.s), w)

\* C23: the GDP scorer gives a text holding a growth keyword +1, a text
\* holding a decline keyword and no growth keyword -1, and a text with no
\* keyword, an empty text or an absent value 0, whatever series comes with it.
C23_GDPDirection ==
  (op = "gdp" /\ curr.k \in {"str", "null", "undefined"}) =>
     /\ "score" \in DOMAIN out
     /\ out.score = IF curr.k # "str" \/ curr.s = <<>> THEN Zero
                    ELSE IF Mentions(growthTerms(rev)) THEN One
                    ELSE IF Mentions(declineTerms(rev)) THEN R(-1, 1)
                    ELSE Zero

\* C23 witness: the GDP scorer has run on a text holding a decline keyword and
\* then a growth keyword, with a series whose trend is not zero, and scored +1.
C23_Witness ==
  /\ op = "gdp"
  /\ curr.k = "str"
  /\ Mentions(growthTerms(rev)) /\ Mentions(declineTerms(rev))
  /\ IsNum(TrendNow) /\ TrendNow # Zero
  /\ out.score = One

-----------------------------------------------------------------------------
(* Claims about the script cache *)

\* whether the cache holds an entry for the key whose lifetime has not run out
Live(key) == key \in DOMAIN cache /\ clock < cache[key].exp

\* what a call hands back for a request: the value and flag of a latest-value
\* request, the array of a series request
Handed(o, k, series) ==
  IF series THEN [value |-> Null, ok |-> TRUE, a |-> o.hst[k].a]
  ELSE [value |-> o.cur[k], ok |-> o.ok[k], a |-> <<>>]

\* one withCache call of a returning GET_REBALANCE_SIGNAL, for the request
\* `req` of indicator k: a live entry is handed back as stored and left as it
\* is; otherwise the feed's answer is handed back and stored for `ttl` seconds
ServedFromCache(req, k, series) ==
  IF Live(cacheKey(rev, req.key))
  THEN /\ Handed(out', k, series) = cache[cacheKey(rev, req.key)].val
       /\ cache'[cacheKey(rev, req.key)] = cache[cacheKey(rev, req.key)]
  ELSE /\ Handed(out', k, series) = req.fresh
       /\ cache'[cacheKey(rev, req.key)] =
            [val |-> RoundTrip(req.fresh), exp |-> clock + req.ttl]

\* C24: in every call, a key stored by an earlier call whose TTL has not run
\* out is answered with the stored value and the feed is not asked, whether
\* the stored value is a reading, a failure reading (ok = false) or an empty
\* series; a key never stored or whose entry has expired is fetched again and
\* the result stored with its TTL.
C24_CacheWithinTTL ==
  [][(op' = "signal" /\ out'.outcome = "return") =>
       /\ \A k \in Range(ScoreKeys) :
            ServedFromCache(Requests(rev, world)[LatestAt[k]], k, FALSE)
       /\ \A k \in SeriesKeys_v2 :
            ServedFromCache(Requests(rev, world)[SeriesAt[k]], k, TRUE)]_vars

\* C24 witness: a call an hour after the first one has handed back the stored
\* failure reading of a six-hour key and a stored empty series although the
\* feeds now answer, and has fetched an expired hourly key again.
C24_Witness ==
  /\ op = "signal" /\ out.outcome = "return"
  /\ clock = TTL_HOUR
  /\ world.http.canCPI.code = 200 /\ ~out.ok.canCPI
  /\ world.series.usCPI.code = 200 /\ out.hst.usCPI.a = <<>>
  /\ world.http.vix.code = 200 /\ out.ok.vix /\ out.warm

-----------------------------------------------------------------------------
(* Claims about the loader of the allocation sheet *)

Loaded == op = "load"

\* the loaded allocation of a row's ticker, undefined when the row was dropped
LoadedAs(t) == Lookup(out.allocMap, t)

\* C25: a cell holding the text "P%" and a cell holding the number P/100 are
\* both loaded, as the same allocation.
C25_PercentEqualsFraction ==
  Loaded =>
    \A P \in {0, 1, 60, 100} :
       (book.alloc[1].raw = Pct(P) /\ book.alloc[2].raw = R(P, 100)) =>
          /\ IsNum(LoadedAs("A"))
          /\ LoadedAs("A") = LoadedAs("B")

\* C26: every allocation the loader stores is a number in [0, 1], and every
\* ticker on the ticker list has such an allocation, whatever the two cells
\* hold.
C26_AllocationsInUnitInterval ==
  Loaded =>
    /\ \A t \in DOMAIN out.allocMap : InRange(out.allocMap[t], Zero, One)
    /\ \A t \in Range(out.tickers) : InRange(LoadedAs(t), Zero, One)

-----------------------------------------------------------------------------
(* Claims about the browser snippet *)

\* how many cells of a row count: its td cells in the original snippet, its
\* th and td cells in the revised one
CellCount(row) ==
  IF rev = "original" THEN Cardinality({i \in 1..Len(row) : row[i].tag = "td"})
  ELSE Len(row)

\* the rows with enough cells: five in the original snippet, four in the
\* revised one
EnoughAt ==
  {i \in 1..Len(world.table) :
     CellCount(world.table[i]) >= (IF rev = "original" THEN 5 ELSE 4)}

\* the n-th row with enough cells, in row order
NthEnough(n) == CHOOSE i \in EnoughAt : Cardinality({j \in EnoughAt : j <= i}) = n

\* whether the first counted cell of every row with enough cells has an id
\* that holds a date
AllDated == \A i \in EnoughAt : HasDate(cellsOf(rev, world.table[i])[1].id)

\* the CSV is the header and then one line per row with enough cells, in row
\* order
HeaderThenOnePerRow ==
  /\ out.outcome = "return"
  /\ Len(out.lines) = 1 + Cardinality(EnoughAt)
  /\ out.lines[1] = CsvHeader
  /\ \A n \in 1..Cardinality(EnoughAt) :
        out.lines[n + 1] = csvLine(cellsOf(rev, world.table[NthEnough(n)]))

\* C27 as stated: extractTransactions returns the header followed by exactly
\* one record per row with enough cells, in row order, rows with fewer cells
\* producing nothing and not aborting the export.
C27_OneRecordPerRow == op = "extract" => HeaderThenOnePerRow

\* C27: when the first counted cell of every row with enough cells has an id
\* holding a yyyy-mm-dd date, extractTransactions returns the header followed
\* by exactly one record per such row, in row order, and rows with fewer cells
\* produce nothing and do not abort the export; when one such row has no date
\* in that id, extractTransactions throws and returns no CSV.
C27_OneRecordPerDatedRow ==
  op = "extract" =>
     IF AllDated THEN HeaderThenOnePerRow ELSE out.outcome = "throw"

\* C27 witness: the revised snippet has exported a table of three rows, two
\* with enough cells (one of them with four) around one with too few.
C27_Witness ==
  /\ op = "extract" /\ rev = "revised"
  /\ Len(world.table) = 3
  /\ EnoughAt = {1, 3}
  /\ Len(world.table[3]) = 4
  /\ out.outcome = "return"
  /\ Len(out.lines) = 3
  /\ out.lines[2] # out.lines[3]

-----------------------------------------------------------------------------
(* Claims about the buckets and the range of the regional score *)

\* C28: every ticker loaded from the allocation sheet is on exactly one of
\* the Defensive list and the Growth (Equity) list, whatever its class and
\* with or without a metadata row.
C28_EveryTickerInOneBucket ==
  Returned =>
    \A t \in Range(out.run.tickers) :
       (t \in Range(out.run.defList)) # (t \in Range(out.run.eqList))

\* the readings and series that score highest: every indicator at its most
\* favourable reading, the yield-curve series rising and the others falling
AllFavourable ==
  /\ world.cur = [unemployment |-> R(3, 1), usCPI |-> R(2, 1), canCPI |-> R(2, 1),
                  canGDP |-> T_Rising, vix |-> R(10, 1), yieldCurve |-> One,
                  creditSpread |-> R(1, 2)]
  /\ world.hst = [unemployment |-> FallingSeries, usCPI |-> FallingSeries,
                  canCPI |-> FallingSeries, canGDP |-> Arr(<<>>),
                  vix |-> FallingSeries, yieldCurve |-> RisingSeries,
                  creditSpread |-> FallingSeries]

\* C29: with the thresholds and weights of v2/v3 the regional score of every
\* region stays strictly below 1.5 for every combination of readings and
\* trends, so the step function never gives +0.08; the most favourable
\* combination gives the U.S. region 12.735 / 8.57, Canada 6.32 / 4.64 and
\* the remaining regions 12.27 / 8.8, and no combination scores higher.
C29_RegionalBelowTopStep ==
  op = "rate" =>
     /\ \A g \in Regions :
           /\ Lt(out.regional[g], R(15, 10))
           /\ out.shift[g] # R(8, 100)
           /\ Le(out.regional[g],
                 CASE g = "U.S."   -> R(12735, 8570)
                   [] g = "Canada" -> R(632, 464)
                   [] OTHER        -> R(1227, 880))
     /\ AllFavourable =>
           /\ out.regional["U.S."] = R(12735, 8570)
           /\ out.regional["Canada"] = R(632, 464)
           /\ out.regional["Global"] = R(1227, 880)

\* C29 witness: a combination of readings for which the step function gives
\* the strongest negative shift, -0.08, for every region.
C29_Witness ==
  /\ op = "rate"
  /\ \A g \in Regions : Lt(out.regional[g], R(-15, 10)) /\ out.shift[g] = R(-8, 100)

-----------------------------------------------------------------------------
(* Claims about the GDP direction text *)

\* C30: the text GET_CANADIAN_GDP_TREND returns is scored +1 by
\* calculateGDPScore when the latest observation is above the one before it,
\* -1 when it is below, and 0 when the two are equal.
C30_GDPTrendTextsScored ==
  (op = "gdptrend" /\ Len(hist.a) >= 2) =>
     /\ "score" \in DOMAIN out.result
     /\ out.result.score =
          IF Gt(hist.a[Len(hist.a)], hist.a[Len(hist.a) - 1]) THEN One
          ELSE IF Lt(hist.a[Len(hist.a)], hist.a[Len(hist.a) - 1]) THEN R(-1, 1)
          ELSE Zero

====
